---- MODULE Spec2Model ----
(***************************************************************************)
(* QueryScribeAI: the self-correction loop (agents/self_correction.py)     *)
(* and the rollback-always SQL execution it drives, together with the      *)
(* syntax validator (db/validator.py).                                     *)
(*                                                                         *)
(* Strings are sequences of tokens; whitespace is an explicit token so     *)
(* that str.strip() is a real operation.  The database is a row counter    *)
(* with a transactional working copy; a SQLAlchemy transaction context     *)
(* manager commits on a normal exit while the transaction is still active  *)
(* and rolls back on an exceptional exit.                                  *)
(***************************************************************************)
EXTENDS Integers, Sequences, FiniteSets, TLC

\* ------------------------------------------------------------------ bounds
MaxAttemptsBound == 3
MaxRuns == 2
MaxRebuilds == 2
MaxQueries == 1
\* tables a schema text under test declares
MaxTables == 2
\* attempts of an agent that is used for one run after the other
SequentialAttempts == 2
\* attempts of an agent built for long runs
LongRunAttempts == 5

\* --------------------------------------------------------------- constants
None == "None"
PLACEHOLDER_URL == "your_database_url_here"
NO_DB_MESSAGE == "No database configured for SQL execution"
NO_DB_VALIDATION_MESSAGE == "No database configured for validation"
VALIDATION_OK_MESSAGE == "SQL syntax validation successful"

\* ----------------------------------------------------------------- strings
Whitespace == {" ", "\n"}

RECURSIVE LStrip(_)
LStrip(s) ==
    IF s = <<>> THEN <<>>
    ELSE IF Head(s) \in Whitespace THEN LStrip(Tail(s)) ELSE s

RECURSIVE RStrip(_)
RStrip(s) ==
    IF s = <<>> THEN <<>>
    ELSE IF s[Len(s)] \in Whitespace THEN RStrip(SubSeq(s, 1, Len(s) - 1)) ELSE s

Strip(s) == RStrip(LStrip(s))

UpperToken(t) ==
    CASE t = "select" -> "SELECT"
      [] t = "from"   -> "FROM"
      [] t = "users"  -> "USERS"
      [] t = "where"  -> "WHERE"
      [] t = "ag"     -> "AG"
      [] t = "insert" -> "INSERT"
      [] t = "into"   -> "INTO"
      [] t = "values" -> "VALUES"
      [] t = "create table" -> "CREATE TABLE"
      [] t \in {"drop", "Drop"}         -> "DROP"
      [] t \in {"table", "Table"}       -> "TABLE"
      [] t \in {"delete", "Delete"}     -> "DELETE"
      [] t = "From"                     -> "FROM"
      [] t \in {"truncate", "Truncate"} -> "TRUNCATE"
      [] t = "Insert"                   -> "INSERT"
      [] t = "Into"                     -> "INTO"
      [] t \in {"update", "Update"}     -> "UPDATE"
      [] t \in {"set", "Set"}           -> "SET"
      [] t \in {"alter", "Alter"}       -> "ALTER"
      [] t \in {"create", "Create"}     -> "CREATE"
      [] t \in {"grant", "Grant"}       -> "GRANT"
      [] t \in {"revoke", "Revoke"}     -> "REVOKE"
      [] OTHER        -> t

Upper(s) == [i \in 1..Len(s) |-> UpperToken(s[i])]

\* the keyword is compared without upper()
StartsWithSelect_CaseSensitive(sql_query) ==
    LET u == Strip(sql_query) IN Len(u) > 0 /\ u[1] = "SELECT"

StartsWithSelect(sql_query) ==
    LET u == Upper(Strip(sql_query)) IN Len(u) > 0 /\ u[1] = "SELECT"

\* the patterns of DANGEROUS_PATTERNS, in list order: the expression and the
\* keywords it asks for, separated by \s+ and delimited by \b
DANGEROUS_PATTERNS ==
    << [re |-> "\\bDROP\\s+TABLE\\b",     words |-> <<"DROP", "TABLE">>],
       [re |-> "\\bDELETE\\s+FROM\\b",    words |-> <<"DELETE", "FROM">>],
       [re |-> "\\bTRUNCATE\\s+TABLE\\b", words |-> <<"TRUNCATE", "TABLE">>],
       [re |-> "\\bINSERT\\s+INTO\\b",    words |-> <<"INSERT", "INTO">>],
       [re |-> "\\bUPDATE\\s+SET\\b",     words |-> <<"UPDATE", "SET">>],
       [re |-> "\\bALTER\\s+TABLE\\b",    words |-> <<"ALTER", "TABLE">>],
       [re |-> "\\bCREATE\\s+TABLE\\b",   words |-> <<"CREATE", "TABLE">>],
       [re |-> "\\bGRANT\\b",              words |-> <<"GRANT">>],
       [re |-> "\\bREVOKE\\b",             words |-> <<"REVOKE">>] >>

\* re.search(pattern, text): the first keyword at some token, then one or
\* more whitespace tokens and the second keyword (when there is one)
Search(words, u) ==
    \E i \in 1..Len(u) :
        /\ u[i] = words[1]
        /\ Len(words) = 2 =>
              \E j \in (i + 2)..Len(u) :
                  /\ u[j] = words[2]
                  /\ \A k \in (i + 1)..(j - 1) : u[k] \in Whitespace

\* is_safe_query: the first pattern found in the upper-cased text rejects it
is_safe_query(sql_query) ==
    LET query_upper == Upper(sql_query)
        found == {n \in 1..Len(DANGEROUS_PATTERNS) :
                      Search(DANGEROUS_PATTERNS[n].words, query_upper)}
    IN  IF found # {}
        THEN LET n == CHOOSE m \in found : \A o \in found : m <= o
             IN  [is_safe |-> FALSE,
                  message |-> "Query contains potentially dangerous operation: "
                                  \o DANGEROUS_PATTERNS[n].re]
        ELSE [is_safe |-> TRUE, message |-> "Query passed safety check"]

\* texts the text-generation capability may answer with (before .strip())
RawOutputs ==
    { <<"\n", "select", " ", "*", " ", "from", " ", "users", "\n">>,
      <<"SELECT", " ", "*", " ", "FROM", " ", "users", " ", "WHERE", " ", "ag", ">", "25">>,
      <<" ", "INSERT", " ", "INTO", " ", "users", " ", "VALUES", " ", "(1)">> }

\* a URL create_engine cannot parse
MALFORMED_URL == "not-a-database-url"

DatabaseUrls ==
    {None, "", PLACEHOLDER_URL, "postgresql://localhost/test", MALFORMED_URL}

\* -------------------------------------------------------------- exceptions
\* str is str(e); line1 is str(e).split('\n')[0]
NoExc == [cls |-> None, hasOrig |-> FALSE, orig |-> None, str |-> None,
          line1 |-> None]

DBAPIError(msg) ==
    [cls |-> "SQLAlchemyError", hasOrig |-> TRUE, orig |-> msg,
     str |-> "(driver) " \o msg \o "\n[SQL: statement]",
     line1 |-> "(driver) " \o msg]
ArgumentError ==
    [cls |-> "SQLAlchemyError", hasOrig |-> FALSE, orig |-> None,
     str |-> "Could not parse SQLAlchemy URL",
     line1 |-> "Could not parse SQLAlchemy URL"]
DriverCrash ==
    [cls |-> "Exception", hasOrig |-> FALSE, orig |-> None,
     str |-> "connection reset by peer", line1 |-> "connection reset by peer"]
ConnectionLost == DBAPIError("server closed the connection unexpectedly")
LLMError ==
    [cls |-> "Exception", hasOrig |-> FALSE, orig |-> None,
     str |-> "text generation failed", line1 |-> "text generation failed"]
\* the request_timeout of the chat model elapsed: the client raises
LLMTimeout ==
    [cls |-> "Exception", hasOrig |-> FALSE, orig |-> None,
     str |-> "Request timed out.", line1 |-> "Request timed out."]
\* what a call of the text-generation capability may raise
LLMFaults == {LLMError, LLMTimeout}
TypeError ==
    [cls |-> "Exception", hasOrig |-> FALSE, orig |-> None,
     str |-> "'NoneType' object is not subscriptable",
     line1 |-> "'NoneType' object is not subscriptable"]

\* exceptions the driver layer may raise at any database call
DriverFaults == {ConnectionLost, DriverCrash}

\* ---------------------------------------------------------------- database
\* what the engine does with one statement inside the open transaction:
\* [ok, rows (working copy afterwards), returned (rows of the result set),
\*  error (engine message)]
DbExecute(sql_query, rows, read_only) ==
    LET u  == Upper(Strip(sql_query))
        kw == IF Len(u) > 0 THEN u[1] ELSE ""
    IN  IF kw = "SELECT"
        THEN IF \E i \in 1..Len(u) : u[i] = "AG"
             THEN [ok |-> FALSE, rows |-> rows, returned |-> 0,
                   error |-> "column ag does not exist"]
             ELSE [ok |-> TRUE, rows |-> rows, returned |-> rows, error |-> None]
        ELSE IF kw = "INSERT"
        THEN IF read_only
             THEN [ok |-> FALSE, rows |-> rows, returned |-> 0,
                   error |-> "cannot execute INSERT in a read-only transaction"]
             ELSE [ok |-> TRUE, rows |-> rows + 1, returned |-> 0,
                   error |-> None]
        ELSE [ok |-> FALSE, rows |-> rows, returned |-> 0,
              error |-> "syntax error at or near " \o kw]

\* --------------------------------------------------------- schema chunks
\* names the expression \w+ matches in the schema texts below
Words == {"users", "orders", "products"}

\* f"CREATE TABLE {table_name} ({columns_def});"
FullDefinition(table_name, columns_def) ==
    <<"CREATE TABLE", " ", table_name, " ", "(">> \o columns_def \o <<");">>

\* schema texts: the sample schema the service loads and indexes at startup,
\* another schema a request may bring, and a text without any table
SAMPLE_SCHEMA ==
    <<"CREATE TABLE", " ", "users", " ", "(", "id INT", ",", "name TEXT", ");",
      "\n",
      "CREATE TABLE", " ", "orders", " ", "(", "id INT", ",", "user_id INT", ");">>
OTHER_SCHEMA ==
    <<"create table", " ", "orders", "(", "id INT", ",", "sku TEXT", ");", "\n",
      "CREATE TABLE", "\n", "products", " ", "(", "sku TEXT", ");", "\n">>
NO_TABLE_SCHEMA == <<"-- no tables yet", "\n">>
SchemaTexts == {SAMPLE_SCHEMA, OTHER_SCHEMA, NO_TABLE_SCHEMA}

\* schema texts in the input form of the chunker, written out from the
\* tables they declare: the keyword in either case, and the statement on one
\* line with two columns or over several lines with one column
Keywords == {"CREATE TABLE", "create table"}
Layouts ==
    { [after_keyword |-> <<" ">>, after_name |-> <<" ">>,
       columns_def |-> <<"id INT", ",", "name TEXT">>,
       names |-> <<"id", "name">>],
      [after_keyword |-> <<"\n">>, after_name |-> <<>>,
       columns_def |-> <<"\n", "sku TEXT", "\n">>,
       names |-> <<"sku">>] }
Separators == {<<"\n">>, <<"\n", "-- no tables yet", "\n">>}

Statement(keyword, layout, table_name) ==
    [text |-> <<keyword>> \o layout.after_keyword \o <<table_name>>
                  \o layout.after_name \o <<"(">> \o layout.columns_def
                  \o <<");">>,
     tables |-> <<[table_name |-> table_name, columns |-> layout.names]>>]

Statements ==
    { Statement(k, l, t) : k \in Keywords, l \in Layouts, t \in Words }

\* the texts that declare exactly n tables, with what they declare
RECURSIVE SchemasOf(_)
SchemasOf(n) ==
    IF n = 0 THEN {[text |-> <<>>, tables |-> <<>>]}
    ELSE { [text |-> s.text \o (IF s.text = <<>> THEN <<>> ELSE sep) \o st.text,
            tables |-> s.tables \o st.tables] :
               s \in SchemasOf(n - 1), st \in Statements, sep \in Separators }

ParseInputs == UNION { SchemasOf(n) : n \in 0..MaxTables }

\* first position from i on that holds no whitespace (Len(s) + 1 if none)
SkipWhitespace(s, i) ==
    CHOOSE j \in i..(Len(s) + 1) :
        /\ j = Len(s) + 1 \/ s[j] \notin Whitespace
        /\ \A k \in i..(j - 1) : s[k] \in Whitespace

\* the column list is matched greedily, (.*) in place of (.*?): it runs to
\* the last ");" of the text
MatchTableAt_Greedy(s, i) ==
    LET n     == SkipWhitespace(s, i + 1)
        o     == SkipWhitespace(s, n + 1)
        ends  == {e \in (o + 1)..Len(s) : s[e] = ");"}
        e     == CHOOSE x \in ends : \A y \in ends : x >= y
        found == /\ UpperToken(s[i]) = "CREATE TABLE"
                 /\ n > i + 1 /\ n <= Len(s) /\ s[n] \in Words
                 /\ o <= Len(s) /\ s[o] = "("
                 /\ ends # {}
    IN  IF found
        THEN [matched |-> TRUE, table_name |-> s[n],
              columns_def |-> SubSeq(s, o + 1, e - 1), next |-> e + 1]
        ELSE [matched |-> FALSE, table_name |-> None, columns_def |-> <<>>,
              next |-> i + 1]

\* the match of r'CREATE TABLE\s+(\w+)\s*\((.*?)\);' (DOTALL, IGNORECASE)
\* starting at token i, if there is one
MatchTableAt(s, i) ==
    LET n     == SkipWhitespace(s, i + 1)
        o     == SkipWhitespace(s, n + 1)
        ends  == {e \in (o + 1)..Len(s) : s[e] = ");"}
        e     == CHOOSE x \in ends : \A y \in ends : x <= y
        found == /\ UpperToken(s[i]) = "CREATE TABLE"
                 /\ n > i + 1 /\ n <= Len(s) /\ s[n] \in Words
                 /\ o <= Len(s) /\ s[o] = "("
                 /\ ends # {}
    IN  IF found
        THEN [matched |-> TRUE, table_name |-> s[n],
              columns_def |-> SubSeq(s, o + 1, e - 1), next |-> e + 1]
        ELSE [matched |-> FALSE, table_name |-> None, columns_def |-> <<>>,
              next |-> i + 1]

\* re.findall(table_pattern, schema_sql, ...): the matches from left to right
RECURSIVE FindAllTables(_, _)
FindAllTables(s, i) ==
    IF i > Len(s) THEN <<>>
    ELSE LET m == MatchTableAt(s, i)
         IN  IF m.matched
             THEN <<[table_name |-> m.table_name, columns_def |-> m.columns_def]>>
                      \o FindAllTables(s, m.next)
             ELSE FindAllTables(s, i + 1)

\* re.match(r'(\w+)\s+(\w+(?:\(\d+\))?)(.*)', line): the column name of a
\* column line ("" when the line does not match)
ColumnName(line) ==
    CASE line = "id INT"      -> "id"
      [] line = "name TEXT"   -> "name"
      [] line = "user_id INT" -> "user_id"
      [] line = "sku TEXT"    -> "sku"
      [] OTHER                -> ""

\* columns_def.split(','), each line stripped and matched
ColumnsOf(columns_def) ==
    LET lines == SelectSeq(columns_def, LAMBDA t : t # "," /\ t \notin Whitespace)
        cols  == SelectSeq(lines, LAMBDA t : ColumnName(t) # "")
    IN  [i \in 1..Len(cols) |-> ColumnName(cols[i])]

\* parse_schema_to_chunks: one Document per match, in match order
parse_schema_to_chunks(schema_sql) ==
    LET tables == FindAllTables(schema_sql, 1)
    IN  [i \in 1..Len(tables) |->
            [table_name      |-> tables[i].table_name,
             columns         |-> ColumnsOf(tables[i].columns_def),
             full_definition |-> FullDefinition(tables[i].table_name,
                                                tables[i].columns_def)]]

TableNames(docs) == [i \in 1..Len(docs) |-> docs[i].table_name]

\* ---------------------------------------------------------- vector search
\* questions asked of the index and the distance of the embedded question to
\* the embedded description of a table (hundredths; smaller is more similar)
Questions == {"customers who placed orders", "products in stock"}
Distance(question, table_name) ==
    IF question = "customers who placed orders"
    THEN CASE table_name = "users"    -> 30
           [] table_name = "orders"   -> 20
           [] OTHER                   -> 90
    ELSE CASE table_name = "users"    -> 95
           [] table_name = "orders"   -> 70
           [] OTHER                   -> 25

\* entries by ascending distance to the question, earlier entries first
\* among equals
RECURSIVE NearestFirst(_, _)
NearestFirst(docs, question) ==
    IF docs = <<>> THEN <<>>
    ELSE LET D(i) == Distance(question, docs[i].table_name)
             m == CHOOSE i \in 1..Len(docs) :
                      \A j \in 1..Len(docs) :
                          D(i) < D(j) \/ (D(i) = D(j) /\ i <= j)
         IN  <<docs[m]>> \o
             NearestFirst(SubSeq(docs, 1, m - 1) \o SubSeq(docs, m + 1, Len(docs)),
                          question)

\* Chroma.similarity_search_with_score(question, k): the k nearest entries
\* of the collection with their distances
similarity_search_with_score(docs, question, k) ==
    LET sorted == NearestFirst(docs, question)
        n == IF k < Len(sorted) THEN (IF k < 0 THEN 0 ELSE k) ELSE Len(sorted)
    IN  [i \in 1..n |-> [doc |-> sorted[i],
                         score |-> Distance(question, sorted[i].table_name)]]

\* "\n\n".join(schema_parts)
RECURSIVE JoinParts(_)
JoinParts(parts) ==
    IF parts = <<>> THEN <<>>
    ELSE IF Len(parts) = 1 THEN parts[1]
    ELSE parts[1] \o <<"\n\n">> \o JoinParts(Tail(parts))

\* len(text.split("CREATE TABLE")) - 1: occurrences of the literal
CountCreateTable(text) ==
    Cardinality({i \in 1..Len(text) : text[i] = "CREATE TABLE"})

\* ------------------------------------------------------------------- state
VARIABLES
    max_attempts,        \* SelfCorrectingAgent.max_attempts
    database_url,        \* settings.database_url
    pc,                  \* position of generate_with_correction
    xpc,                 \* position inside execute_sql
    vpc,                 \* position inside validate_sql_syntax
    attempt,             \* loop variable of the for loop
    current_sql,         \* candidate query
    correction_history,  \* self.correction_history
    result,              \* SQLExecutionResult of the last execute_sql
    ret,                 \* value returned by generate_with_correction
    vquery,              \* argument of validate_sql_syntax
    vret,                \* value returned by validate_sql_syntax
    validation_engine,   \* lru_cache of get_validation_engine
    read_only,           \* SET TRANSACTION READ ONLY took effect
    db,                  \* rows persisted in the target table
    txn,                 \* state of the connection's transaction
    work,                \* rows as seen inside the open transaction
    connOpen,            \* a connection is open
    exc,                 \* exception being propagated
    pending,             \* value of a return statement awaiting the with-exits
    cursor,              \* rows of the open result set
    row_count,           \* local row_count of execute_sql ({} is None)
    caught,              \* exception handled by the last except clause
    raisedIn,            \* function an exception escaped from
    run,                 \* number of runs started
    genLog,              \* generate_initial_sql calls of this run (result)
    corrLog,             \* correct_sql calls of this run (arguments, result)
    execCalls,           \* execute_sql calls of this run
    connects,            \* connections opened so far in this call
    sent,                \* statements sent to the database in this call
    dbBefore,            \* db when the current execute/validate call began
    vectorstore,         \* SchemaRAG.vectorstore: 0 is None, else the collection it is bound to
    schema_loaded,       \* SchemaRAG.schema_loaded
    coll_id,             \* collection in persist_directory (0: there is none)
    coll_docs,           \* the entries of that collection, in insertion order
    coll_made,           \* collections created so far
    writer,              \* per worker thread: the index_schema / clear_index call it runs
    reader,              \* the retrieve_relevant_schema / get_all_table_names call in progress
    rebuilds,            \* index_schema and clear_index calls made so far
    queries,             \* reader calls made so far
    activeTables,        \* tables of the last index_schema that returned (<<>> after clear_index)
    overlapped,          \* two rebuild calls have been in progress at once
    request,             \* the /generate-sql request being handled (main_v2)
    execLog,             \* results execute_sql returned to this run, in order
    threads,             \* the other request's worker thread while it is not scheduled
    fn_call,             \* function under test and its argument
    fn_ret,              \* what the function returned
    v1,                  \* the /generate-sql request being handled (main, v1)
    retired              \* history lists the agent no longer refers to, still held by a caller

vars == <<max_attempts, database_url, pc, xpc, vpc, attempt, current_sql,
          correction_history, result, ret, vquery, vret, validation_engine,
          read_only, db, txn, work,
          connOpen, exc, pending, cursor, row_count, caught, raisedIn, run,
          genLog, corrLog, execCalls, connects, sent, dbBefore,
          vectorstore, schema_loaded, coll_id, coll_docs, coll_made, writer,
          reader, rebuilds, queries, activeTables, overlapped, request,
          execLog, threads, fn_call, fn_ret, v1, retired>>

coreVars == <<max_attempts, database_url, pc, xpc, vpc, attempt, current_sql,
              correction_history, result, ret, vquery, vret, validation_engine,
              read_only, db, txn, work,
              connOpen, exc, pending, cursor, row_count, caught, raisedIn, run,
              genLog, corrLog, execCalls, connects, sent, dbBefore,
              execLog>>
auxVars == <<threads, fn_call, fn_ret, v1, retired>>
storeVars == <<vectorstore, schema_loaded, coll_id, coll_docs, coll_made>>
ragVars == <<storeVars, writer, reader, rebuilds, queries, activeTables,
             overlapped>>

dbVars == <<db, txn, work, connOpen, cursor>>
execLocals == <<pending, row_count, caught>>
validatorVars == <<vpc, vquery, vret, validation_engine, read_only>>
configVars == <<max_attempts, database_url>>

NoResult ==
    [success |-> FALSE, sql_query |-> <<>>, error_message |-> None,
     row_count |-> {}, execution_time_ms |-> None]
NoRet == [sql |-> <<>>, success |-> FALSE, history |-> <<>>, set |-> FALSE]
NoVRet == [valid |-> FALSE, message |-> None, set |-> FALSE]

SQLExecutionResult(success, sql_query, error_message, rc, execution_time_ms) ==
    [success |-> success, sql_query |-> sql_query,
     error_message |-> error_message, row_count |-> rc,
     execution_time_ms |-> execution_time_ms]

CorrectionAttempt(attempt_number, sql_query, error_message, success) ==
    [attempt_number |-> attempt_number, sql_query |-> sql_query,
     error_message |-> error_message, success |-> success]

\* worker threads that run rebuild calls (asyncio.to_thread in /index-schema,
\* the startup event, direct callers)
Writers == {"w1", "w2"}

IdleWriter ==
    [pc |-> "idle", op |-> None, call |-> 0, documents |-> <<>>, store |-> 0,
     raised |-> None]

IdleReader ==
    [pc |-> "idle", op |-> None, caller |-> None, question |-> None,
     top_k |-> 0, score_threshold |-> 0, results |-> <<>>, ret |-> <<>>,
     raised |-> None, quiet |-> TRUE, indexing |-> FALSE, tablesAtCall |-> <<>>]

\* no plan, no explanation and no response have been made yet
NoPlan == [schema |-> <<>>, user_question |-> None]
NoExplanation == [sql_query |-> <<>>]
NoResponse ==
    [natural_language_question |-> None, sql_query |-> <<>>,
     explanation |-> NoExplanation, validation_status |-> None,
     validation_message |-> [text |-> None, attempts |-> {}, last_error |-> {}],
     tables_retrieved |-> {}, rag_enabled |-> FALSE,
     correction_attempts |-> 0, self_correction_applied |-> FALSE,
     correction_history |-> {}]

NoRequest ==
    [pc |-> "none", question |-> None, db_schema |-> <<>>, schema |-> <<>>,
     rag_enabled |-> FALSE, relevant_schema |-> <<>>, focused_schema |-> <<>>,
     tables_retrieved |-> 0, table_names |-> <<>>, analyzed |-> <<>>,
     handed |-> <<>>, status |-> 0, retrieval |-> None,
     plan |-> NoPlan, handed_plan |-> NoPlan, stages |-> <<>>,
     final_sql |-> <<>>, success |-> FALSE, correction_history |-> <<>>,
     explained |-> <<>>, explanation |-> NoExplanation,
     response |-> NoResponse]

\* no other request is in flight
NoThreads == [parked |-> FALSE, current |-> 1, frame |-> <<>>]

\* no function is under test
NoCall ==
    [fn |-> None, arg |-> <<>>, expect |-> <<>>, round |-> 0, chunk |-> 0,
     of |-> 0, value |-> <<>>]

\* a value that is not there yet, and the object a call of an "async def"
\* function returns: a coroutine whose body runs only when it is awaited
NoValue == [kind |-> "none", of |-> None]
Coroutine(function) == [kind |-> "coroutine", of |-> function]

V1Tasks == {"run_generator", "run_explainer", "run_validator"}

NoV1Request ==
    [pc |-> "none", question |-> None, db_schema |-> <<>>, schema |-> <<>>,
     plan |-> NoPlan, sql_query |-> NoValue,
     task |-> [t \in V1Tasks |-> "none"],
     returned |-> [t \in V1Tasks |-> NoValue],
     invoked |-> {}, explanation |-> NoValue, status |-> 0, exc |-> NoExc]

\* the placeholder value is taken for a real URL
DatabaseConfigured_NoPlaceholder == ~(database_url \in {None, ""})

\* not settings.database_url or settings.database_url == "your_database_url_here"
DatabaseConfigured == ~(database_url \in {None, ""} \/ database_url = PLACEHOLDER_URL)

\* SelfCorrectingAgent(max_attempts=n) on a service whose settings hold url
ConstructedWith(n, url) ==
    /\ max_attempts = n
    /\ database_url = url
    /\ pc = "idle"
    /\ xpc = "none"
    /\ vpc = "none"
    /\ attempt = 0
    /\ current_sql = <<>>
    /\ correction_history = <<>>
    /\ result = NoResult
    /\ ret = NoRet
    /\ vquery = <<>>
    /\ vret = NoVRet
    /\ validation_engine = "uncached"
    /\ read_only = FALSE
    /\ db = 1
    /\ txn = "none"
    /\ work = 0
    /\ connOpen = FALSE
    /\ exc = NoExc
    /\ pending = NoResult
    /\ cursor = 0
    /\ row_count = {}
    /\ caught = NoExc
    /\ raisedIn = None
    /\ run = 0
    /\ genLog = <<>>
    /\ corrLog = <<>>
    /\ execCalls = 0
    /\ connects = 0
    /\ sent = 0
    /\ dbBefore = 0
    /\ vectorstore = 0
    /\ schema_loaded = FALSE
    /\ coll_id = 0
    /\ coll_docs = <<>>
    /\ coll_made = 0
    /\ writer = [t \in Writers |-> IdleWriter]
    /\ reader = IdleReader
    /\ rebuilds = 0
    /\ queries = 0
    /\ activeTables = <<>>
    /\ overlapped = FALSE
    /\ request = NoRequest
    /\ execLog = <<>>
    /\ threads = NoThreads
    /\ fn_ret = NoCall
    /\ v1 = NoV1Request
    /\ retired = <<>>

Constructed ==
    \E n \in 0..MaxAttemptsBound, url \in DatabaseUrls : ConstructedWith(n, url)

\* the state after construction: no function is being called on its own
Init ==
    /\ Constructed
    /\ fn_call = NoCall


\* ------------------------------------------------- generate_with_correction
\* the slice is left out: the whole history is summarised
Last3_All(h) == h

\* self.correction_history[-3:]
Last3(h) == SubSeq(h, IF Len(h) > 3 THEN Len(h) - 2 ELSE 1, Len(h))

\* "\n".join(f"Attempt {n}: {error or 'Success'}" for the last 3) or "None"
PreviousAttempts(h) ==
    [i \in 1..Len(Last3(h)) |->
        [attempt_number |-> Last3(h)[i].attempt_number,
         text |-> IF Last3(h)[i].error_message \in {None, ""}
                  THEN "Success" ELSE Last3(h)[i].error_message]]

\* the history of the run before is kept: self.correction_history = [] is
\* left out
BeginRun_KeepsHistory ==
    /\ pc \in {"idle", "returned", "raised"}
    /\ vpc = "none"
    /\ run < MaxRuns
    /\ pc' = "generating"
    /\ run' = run + 1
    /\ correction_history' = correction_history
    /\ attempt' = 0
    /\ current_sql' = <<>>
    /\ ret' = NoRet
    /\ result' = NoResult
    /\ exc' = NoExc
    /\ genLog' = <<>>
    /\ corrLog' = <<>>
    /\ execCalls' = 0
    /\ execLog' = <<>>
    /\ raisedIn' = None
    /\ UNCHANGED <<configVars, threads, fn_call, fn_ret, v1, ragVars, xpc,
                   validatorVars, dbVars, execLocals, connects, sent, dbBefore>>

\* self.correction_history = []; a request enters the loop
BeginRun ==
    /\ pc \in {"idle", "returned", "raised"}
    /\ vpc = "none"
    /\ run < MaxRuns
    /\ pc' = "generating"
    /\ run' = run + 1
    /\ correction_history' = <<>>
    /\ attempt' = 0
    /\ current_sql' = <<>>
    /\ ret' = NoRet
    /\ result' = NoResult
    /\ exc' = NoExc
    /\ genLog' = <<>>
    /\ corrLog' = <<>>
    /\ execCalls' = 0
    /\ execLog' = <<>>
    /\ raisedIn' = None
    /\ UNCHANGED <<configVars, threads, fn_call, fn_ret, v1, ragVars, xpc,
                   validatorVars, dbVars, execLocals, connects, sent, dbBefore>>

\* a caller other than the v2 request handler starts a run; it holds no list
\* of an earlier run, so the list that is replaced is garbage
StartRun == BeginRun /\ UNCHANGED <<request, retired>>

\* the list is emptied in place (correction_history.clear()): no new list
RunAgain_ClearsInPlace ==
    /\ BeginRun
    /\ retired' = retired
    /\ UNCHANGED request

\* a caller that still holds what the run before returned starts the next
\* run on the same agent: "self.correction_history = []" binds the attribute
\* to a new list, and the list it referred to stays as it is
RunAgain ==
    /\ BeginRun
    /\ retired' = Append(retired, correction_history)
    /\ UNCHANGED request

\* current_sql = self.generate_initial_sql(...): chain.invoke(...).strip()
GenerateInitialSqlReturns ==
    /\ pc = "generating"
    /\ \E raw \in RawOutputs :
          /\ current_sql' = Strip(raw)
          /\ genLog' = Append(genLog, [returned |-> TRUE, result |-> Strip(raw)])
    /\ pc' = "loop_head"
    /\ UNCHANGED <<configVars, auxVars, ragVars, request, execLog, xpc, validatorVars, attempt, correction_history,
                   result, ret, dbVars, exc, execLocals, raisedIn, run, corrLog,
                   execCalls, connects, sent, dbBefore>>

\* the text-generation capability fails: the exception leaves the loop
GenerateInitialSqlRaises ==
    /\ pc = "generating"
    /\ genLog' = Append(genLog, [returned |-> FALSE, result |-> <<>>])
    /\ \E f \in LLMFaults : exc' = f
    /\ pc' = "raised"
    /\ raisedIn' = "generate_initial_sql"
    /\ UNCHANGED <<configVars, auxVars, ragVars, request, execLog, xpc, validatorVars, attempt, current_sql,
                   correction_history, result, ret, dbVars, execLocals, run,
                   corrLog, execCalls, connects, sent, dbBefore>>

\* the range runs one attempt too far: range(1, self.max_attempts + 2)
LoopHead_OneTooMany ==
    /\ pc = "loop_head"
    /\ IF attempt <= max_attempts
       THEN /\ attempt' = attempt + 1
            /\ pc' = "executing"
            /\ xpc' = "check"
            /\ execCalls' = execCalls + 1
            /\ dbBefore' = db
            /\ connects' = 0
            /\ sent' = 0
            /\ ret' = ret
       ELSE /\ ret' = [sql |-> current_sql, success |-> FALSE,
                       history |-> correction_history, set |-> TRUE]
            /\ pc' = "returned"
            /\ UNCHANGED <<attempt, xpc, execCalls, dbBefore, connects, sent>>
    /\ UNCHANGED <<configVars, auxVars, ragVars, request, execLog, validatorVars, current_sql, correction_history,
                   result, dbVars, exc, execLocals, raisedIn, run, genLog,
                   corrLog>>

\* the loop never leaves: the exhausted range is not noticed
LoopHead_NeverExhausted ==
    /\ pc = "loop_head"
    /\ attempt < max_attempts
    /\ attempt' = attempt + 1
    /\ pc' = "executing"
    /\ xpc' = "check"
    /\ execCalls' = execCalls + 1
    /\ dbBefore' = db
    /\ connects' = 0
    /\ sent' = 0
    /\ ret' = ret
    /\ UNCHANGED <<configVars, auxVars, ragVars, request, execLog, validatorVars, current_sql, correction_history,
                   result, dbVars, exc, execLocals, raisedIn, run, genLog,
                   corrLog>>

\* for attempt in range(1, self.max_attempts + 1): ... execute_sql(current_sql)
\* and, once the range is used up, return current_sql, False, history
LoopHead ==
    /\ pc = "loop_head"
    /\ IF attempt < max_attempts
       THEN /\ attempt' = attempt + 1
            /\ pc' = "executing"
            /\ xpc' = "check"
            /\ execCalls' = execCalls + 1
            /\ dbBefore' = db
            /\ connects' = 0
            /\ sent' = 0
            /\ ret' = ret
       ELSE /\ ret' = [sql |-> current_sql, success |-> FALSE,
                       history |-> correction_history, set |-> TRUE]
            /\ pc' = "returned"
            /\ UNCHANGED <<attempt, xpc, execCalls, dbBefore, connects, sent>>
    /\ UNCHANGED <<configVars, auxVars, ragVars, request, execLog, validatorVars, current_sql, correction_history,
                   result, dbVars, exc, execLocals, raisedIn, run, genLog,
                   corrLog>>

\* the record is numbered from 0: attempt_number = len(history)
RecordAttempt_ZeroIndexed ==
    /\ pc = "executing"
    /\ xpc = "done"
    /\ correction_history' =
          Append(correction_history,
                 CorrectionAttempt(Len(correction_history), current_sql,
                                   result.error_message, result.success))
    /\ execLog' = Append(execLog, result)
    /\ pc' = "deciding"
    /\ xpc' = "none"
    /\ pending' = NoResult
    /\ row_count' = {}
    /\ caught' = NoExc
    /\ cursor' = 0
    /\ work' = 0
    /\ txn' = "none"
    /\ connects' = 0
    /\ sent' = 0
    /\ dbBefore' = 0
    /\ UNCHANGED <<configVars, auxVars, ragVars, request, validatorVars, attempt, current_sql, result, ret,
                   db, connOpen, exc, raisedIn, run, genLog, corrLog,
                   execCalls>>

\* attempt_record = CorrectionAttempt(...); self.correction_history.append(...)
RecordAttempt ==
    /\ pc = "executing"
    /\ xpc = "done"
    /\ correction_history' =
          Append(correction_history,
                 CorrectionAttempt(attempt, current_sql,
                                   result.error_message, result.success))
    /\ execLog' = Append(execLog, result)
    /\ pc' = "deciding"
    /\ xpc' = "none"
    \* the frame of execute_sql is gone
    /\ pending' = NoResult
    /\ row_count' = {}
    /\ caught' = NoExc
    /\ cursor' = 0
    /\ work' = 0
    /\ txn' = "none"
    /\ connects' = 0
    /\ sent' = 0
    /\ dbBefore' = 0
    /\ UNCHANGED <<configVars, auxVars, ragVars, request, validatorVars, attempt, current_sql, result, ret,
                   db, connOpen, exc, raisedIn, run, genLog, corrLog,
                   execCalls>>

\* a successful attempt does not return: the loop goes on as after a failure
Decide_NoShortCircuit ==
    /\ pc = "deciding"
    /\ IF attempt < max_attempts
       THEN /\ pc' = "correcting"
            /\ UNCHANGED <<ret, exc, raisedIn>>
       ELSE /\ pc' = "loop_head"
            /\ UNCHANGED <<ret, exc, raisedIn>>
    /\ UNCHANGED <<configVars, auxVars, ragVars, request, execLog, xpc, validatorVars, attempt, current_sql,
                   correction_history, result, dbVars, execLocals, run, genLog,
                   corrLog, execCalls, connects, sent, dbBefore>>

\* the last failed attempt is corrected too: attempt <= self.max_attempts
Decide_CorrectAfterLast ==
    /\ pc = "deciding"
    /\ IF result.success
       THEN /\ ret' = [sql |-> current_sql, success |-> TRUE,
                       history |-> correction_history, set |-> TRUE]
            /\ pc' = "returned"
            /\ UNCHANGED <<exc, raisedIn>>
       ELSE /\ pc' = "correcting"
            /\ UNCHANGED <<ret, exc, raisedIn>>
    /\ UNCHANGED <<configVars, auxVars, ragVars, request, execLog, xpc, validatorVars, attempt, current_sql,
                   correction_history, result, dbVars, execLocals, run, genLog,
                   corrLog, execCalls, connects, sent, dbBefore>>

\* if result.success: return ...; if attempt < self.max_attempts: correct
Decide ==
    /\ pc = "deciding"
    /\ IF result.success
       THEN /\ ret' = [sql |-> current_sql, success |-> TRUE,
                       history |-> correction_history, set |-> TRUE]
            /\ pc' = "returned"
            /\ UNCHANGED <<exc, raisedIn>>
       ELSE IF attempt < max_attempts
       THEN IF result.error_message = None
            THEN \* result.error_message[:100] on None
                 /\ exc' = TypeError
                 /\ pc' = "raised"
                 /\ raisedIn' = "generate_with_correction"
                 /\ ret' = ret
            ELSE /\ pc' = "correcting"
                 /\ UNCHANGED <<ret, exc, raisedIn>>
       ELSE /\ pc' = "loop_head"
            /\ UNCHANGED <<ret, exc, raisedIn>>
    /\ UNCHANGED <<configVars, auxVars, ragVars, request, execLog, xpc, validatorVars, attempt, current_sql,
                   correction_history, result, dbVars, execLocals, run, genLog,
                   corrLog, execCalls, connects, sent, dbBefore>>

\* the arguments correct_sql is called with
CorrectionCall(returned, text) ==
    [failed_query |-> current_sql,
     error_message |-> result.error_message,
     attempt_number |-> attempt + 1,
     previous_attempts |-> PreviousAttempts(correction_history),
     after_executions |-> execCalls,
     returned |-> returned,
     result |-> text]

\* the corrected text is dropped: the failed candidate is executed again
CorrectSqlReturns_Dropped ==
    /\ pc = "correcting"
    /\ \E raw \in RawOutputs :
          corrLog' = Append(corrLog, CorrectionCall(TRUE, Strip(raw)))
    /\ pc' = "loop_head"
    /\ UNCHANGED <<configVars, auxVars, ragVars, request, execLog, xpc, validatorVars, attempt, current_sql,
                   correction_history, result, ret, dbVars, exc, execLocals,
                   raisedIn, run, genLog, execCalls, connects, sent, dbBefore>>

\* current_sql = self.correct_sql(schema, question, failed_query=current_sql,
\*                                error_message=result.error_message, ...)
CorrectSqlReturns ==
    /\ pc = "correcting"
    /\ \E raw \in RawOutputs :
          /\ current_sql' = Strip(raw)
          /\ corrLog' = Append(corrLog, CorrectionCall(TRUE, Strip(raw)))
    /\ pc' = "loop_head"
    /\ UNCHANGED <<configVars, auxVars, ragVars, request, execLog, xpc, validatorVars, attempt, correction_history,
                   result, ret, dbVars, exc, execLocals, raisedIn, run, genLog,
                   execCalls, connects, sent, dbBefore>>

\* the correction capability fails: the exception leaves the loop
CorrectSqlRaises ==
    /\ pc = "correcting"
    /\ corrLog' = Append(corrLog, CorrectionCall(FALSE, <<>>))
    /\ \E f \in LLMFaults : exc' = f
    /\ pc' = "raised"
    /\ raisedIn' = "correct_sql"
    /\ UNCHANGED <<configVars, auxVars, ragVars, request, execLog, xpc, validatorVars, attempt, current_sql,
                   correction_history, result, ret, dbVars, execLocals, run,
                   genLog, execCalls, connects, sent, dbBefore>>

\* ------------------------------------------------------------- execute_sql
\* only "except SQLAlchemyError" is there
HandlerFor_OnlySQLAlchemy(e) ==
    IF e.cls = "SQLAlchemyError" THEN "except SQLAlchemyError" ELSE "unhandled"

\* which except clause of execute_sql takes an exception
HandlerFor(e) ==
    IF e.cls = "SQLAlchemyError" THEN "except SQLAlchemyError"
    ELSE IF e.cls = "Exception" THEN "except Exception"
    ELSE "unhandled"

\* error_msg = str(e.orig) if hasattr(e, 'orig') else str(e)
ErrorMessageOf(e) ==
    IF HandlerFor(e) = "except SQLAlchemyError"
    THEN IF e.hasOrig THEN e.orig ELSE e.str
    ELSE e.str

\* if not settings.database_url or settings.database_url == placeholder
ExecCheck ==
    /\ pc = "executing"
    /\ xpc = "check"
    /\ IF ~DatabaseConfigured
       THEN /\ result' = SQLExecutionResult(FALSE, current_sql, NO_DB_MESSAGE,
                                            {}, None)
            /\ xpc' = "done"
       ELSE /\ xpc' = "create_engine"
            /\ result' = result
    /\ row_count' = {}
    /\ pending' = NoResult
    /\ caught' = NoExc
    /\ UNCHANGED <<configVars, auxVars, ragVars, request, execLog, pc, validatorVars, attempt, current_sql,
                   correction_history, ret, dbVars, exc, raisedIn, run,
                   genLog, corrLog, execCalls, connects, sent, dbBefore>>

\* create_engine(url) raises ArgumentError on a URL it cannot parse
CreateEngineFails == database_url = MALFORMED_URL

\* engine = create_engine(settings.database_url)
ExecCreateEngine ==
    /\ pc = "executing"
    /\ xpc = "create_engine"
    /\ IF CreateEngineFails
       THEN /\ exc' = ArgumentError
            /\ xpc' = "handler"
       ELSE /\ xpc' = "connect"
            /\ exc' = exc
    /\ UNCHANGED <<configVars, auxVars, ragVars, request, execLog, pc, validatorVars, attempt, current_sql,
                   correction_history, result, ret, dbVars, execLocals,
                   raisedIn, run, genLog, corrLog, execCalls, connects, sent,
                   dbBefore>>

\* with engine.connect() as connection:
ExecConnect ==
    /\ pc = "executing"
    /\ xpc = "connect"
    /\ \/ /\ connOpen' = TRUE
          /\ connects' = connects + 1
          /\ txn' = "none"
          /\ xpc' = "begin"
          /\ exc' = exc
       \/ \E f \in DriverFaults :
             /\ exc' = f
             /\ xpc' = "handler"
             /\ UNCHANGED <<connOpen, connects, txn>>
    /\ UNCHANGED <<configVars, auxVars, ragVars, request, execLog, pc, validatorVars, attempt, current_sql,
                   correction_history, result, ret, db, work, cursor,
                   execLocals, raisedIn, run, genLog, corrLog, execCalls,
                   sent, dbBefore>>

\* with connection.begin() as transaction:
ExecBegin ==
    /\ pc = "executing"
    /\ xpc = "begin"
    /\ txn' = "active"
    /\ work' = db
    /\ xpc' = "execute"
    /\ UNCHANGED <<configVars, auxVars, ragVars, request, execLog, pc, validatorVars, attempt, current_sql,
                   correction_history, result, ret, db, connOpen, cursor, exc,
                   execLocals, raisedIn, run, genLog, corrLog, execCalls,
                   connects, sent, dbBefore>>

\* result = connection.execute(text(sql_query)); row_count = None;
\* if sql_query.strip().upper().startswith('SELECT'):
ExecStatement ==
    /\ pc = "executing"
    /\ xpc = "execute"
    /\ sent' = sent + 1
    /\ row_count' = {}
    /\ LET o == DbExecute(current_sql, work, FALSE) IN
       \/ /\ o.ok
          /\ work' = o.rows
          /\ cursor' = o.returned
          /\ xpc' = IF StartsWithSelect(current_sql) THEN "fetch" ELSE "rollback"
          /\ exc' = exc
       \/ /\ ~o.ok
          /\ exc' = DBAPIError(o.error)
          /\ xpc' = "exit_transaction"
          /\ UNCHANGED <<work, cursor>>
       \/ \E f \in DriverFaults :
             /\ exc' = f
             /\ xpc' = "exit_transaction"
             /\ UNCHANGED <<work, cursor>>
    /\ UNCHANGED <<configVars, auxVars, ragVars, request, execLog, pc, validatorVars, attempt, current_sql,
                   correction_history, result, ret, db, txn, connOpen, pending,
                   caught, raisedIn, run, genLog, corrLog, execCalls,
                   connects, dbBefore>>

\* rows = result.fetchall(); row_count = len(rows)
ExecFetch ==
    /\ pc = "executing"
    /\ xpc = "fetch"
    /\ \/ /\ row_count' = {cursor}
          /\ xpc' = "rollback"
          /\ exc' = exc
       \/ \E f \in DriverFaults :
             /\ exc' = f
             /\ xpc' = "exit_transaction"
             /\ row_count' = row_count
    /\ UNCHANGED <<configVars, auxVars, ragVars, request, execLog, pc, validatorVars, attempt, current_sql,
                   correction_history, result, ret, dbVars, pending, caught,
                   raisedIn, run, genLog, corrLog, execCalls, connects, sent,
                   dbBefore>>

\* the explicit rollback is left out
ExecRollback_Skipped ==
    /\ pc = "executing"
    /\ xpc = "rollback"
    /\ xpc' = "return"
    /\ UNCHANGED <<configVars, auxVars, ragVars, request, execLog, pc, validatorVars, attempt, current_sql,
                   correction_history, result, ret, dbVars, exc, execLocals,
                   raisedIn, run, genLog, corrLog, execCalls, connects, sent,
                   dbBefore>>

\* transaction.rollback()
ExecRollback ==
    /\ pc = "executing"
    /\ xpc = "rollback"
    /\ \/ /\ txn' = "rolled_back"
          /\ work' = db
          /\ xpc' = "return"
          /\ exc' = exc
       \/ \E f \in DriverFaults :
             /\ exc' = f
             /\ xpc' = "exit_transaction"
             /\ UNCHANGED <<txn, work>>
    /\ UNCHANGED <<configVars, auxVars, ragVars, request, execLog, pc, validatorVars, attempt, current_sql,
                   correction_history, result, ret, db, connOpen, cursor,
                   execLocals, raisedIn, run, genLog, corrLog, execCalls,
                   connects, sent, dbBefore>>

\* return SQLExecutionResult(success=True, ..., row_count, execution_time)
ExecReturn ==
    /\ pc = "executing"
    /\ xpc = "return"
    /\ pending' = SQLExecutionResult(TRUE, current_sql, None, row_count,
                                     "measured")
    /\ xpc' = "exit_transaction"
    /\ UNCHANGED <<configVars, auxVars, ragVars, request, execLog, pc, validatorVars, attempt, current_sql,
                   correction_history, result, ret, dbVars, exc, row_count,
                   caught, raisedIn, run, genLog, corrLog, execCalls,
                   connects, sent, dbBefore>>

\* leaving "with connection.begin()": an active transaction is committed on
\* a normal exit and rolled back on an exceptional one
ExecExitTransaction ==
    /\ pc = "executing"
    /\ xpc = "exit_transaction"
    /\ xpc' = "close"
    /\ IF txn = "active"
       THEN IF exc = NoExc
            THEN /\ db' = work
                 /\ txn' = "committed"
                 /\ exc' = exc
            ELSE \/ /\ txn' = "rolled_back"
                    /\ UNCHANGED <<db, exc>>
                 \/ \E f \in DriverFaults :
                       /\ exc' = f
                       /\ UNCHANGED <<db, txn>>
       ELSE UNCHANGED <<db, txn, exc>>
    /\ UNCHANGED <<configVars, auxVars, ragVars, request, execLog, pc, validatorVars, attempt, current_sql,
                   correction_history, result, ret, work, connOpen, cursor,
                   execLocals, raisedIn, run, genLog, corrLog, execCalls,
                   connects, sent, dbBefore>>

\* leaving "with engine.connect()": the connection is closed, which discards
\* a transaction that is still open; then the return value is delivered or
\* the exception reaches the except clauses
ExecClose ==
    /\ pc = "executing"
    /\ xpc = "close"
    /\ connOpen' = FALSE
    /\ txn' = IF txn = "active" THEN "rolled_back" ELSE txn
    /\ \/ /\ exc = NoExc
          /\ result' = pending
          /\ xpc' = "done"
          /\ exc' = exc
       \/ /\ exc # NoExc
          /\ xpc' = "handler"
          /\ UNCHANGED <<result, exc>>
       \/ \E f \in DriverFaults :
             /\ exc' = f
             /\ xpc' = "handler"
             /\ result' = result
    /\ UNCHANGED <<configVars, auxVars, ragVars, request, execLog, pc, validatorVars, attempt, current_sql,
                   correction_history, ret, db, work, cursor, execLocals,
                   raisedIn, run, genLog, corrLog, execCalls, connects, sent,
                   dbBefore>>

\* except SQLAlchemyError as e: ... except Exception as e: ...
ExecHandler ==
    /\ pc = "executing"
    /\ xpc = "handler"
    /\ IF HandlerFor(exc) = "unhandled"
       THEN /\ pc' = "raised"
            /\ raisedIn' = "execute_sql"
            /\ xpc' = "none"
            /\ UNCHANGED <<result, exc, caught>>
       ELSE /\ result' = SQLExecutionResult(FALSE, current_sql,
                                            ErrorMessageOf(exc), {}, "measured")
            /\ caught' = exc
            /\ exc' = NoExc
            /\ xpc' = "done"
            /\ UNCHANGED <<pc, raisedIn>>
    /\ UNCHANGED <<configVars, auxVars, ragVars, request, execLog, validatorVars, attempt, current_sql,
                   correction_history, ret, dbVars, pending, row_count, run,
                   genLog, corrLog, execCalls, connects, sent, dbBefore>>

\* ----------------------------------------------------- validate_sql_syntax
\* every variable of the correction loop and of execute_sql's frame
loopState == <<pc, xpc, attempt, current_sql, correction_history, result, ret,
               pending, row_count, raisedIn, run, genLog, corrLog, execCalls,
               execLog>>

\* a caller invokes validate_sql_syntax(sql_query)
ValidateSqlSyntax ==
    /\ pc = "idle"
    /\ vpc = "none"
    /\ \E raw \in RawOutputs : vquery' = raw
    /\ vpc' = "get_engine"
    /\ vret' = NoVRet
    /\ dbBefore' = db
    /\ connects' = 0
    /\ sent' = 0
    /\ caught' = NoExc
    /\ UNCHANGED <<configVars, auxVars, ragVars, request, loopState, validation_engine, read_only, dbVars,
                   exc>>

\* engine = get_validation_engine(); if not engine: return False, "No database..."
\* get_validation_engine is lru_cached: None is remembered as well
GetValidationEngine ==
    /\ vpc = "get_engine"
    /\ \/ /\ validation_engine = "uncached"
          /\ \/ /\ ~DatabaseConfigured
                /\ validation_engine' = "None"
             \/ /\ DatabaseConfigured
                /\ validation_engine' =
                      IF CreateEngineFails THEN "None" ELSE "Engine"
       \/ /\ validation_engine # "uncached"
          /\ validation_engine' = validation_engine
    /\ IF validation_engine' = "None"
       THEN /\ vret' = [valid |-> FALSE, message |-> NO_DB_VALIDATION_MESSAGE,
                        set |-> TRUE]
            /\ vpc' = "done"
       ELSE /\ vpc' = "connect"
            /\ vret' = vret
    /\ UNCHANGED <<configVars, auxVars, ragVars, request, loopState, vquery, read_only, dbVars, exc,
                   caught, connects, sent, dbBefore>>

\* with engine.connect() as connection:
VConnect ==
    /\ vpc = "connect"
    /\ \/ /\ connOpen' = TRUE
          /\ connects' = connects + 1
          /\ txn' = "none"
          /\ vpc' = "begin"
          /\ exc' = exc
       \/ \E f \in DriverFaults :
             /\ exc' = f
             /\ vpc' = "handler"
             /\ UNCHANGED <<connOpen, connects, txn>>
    /\ UNCHANGED <<configVars, auxVars, ragVars, request, loopState, vquery, vret, validation_engine,
                   read_only, db, work, cursor, caught, sent, dbBefore>>

\* with connection.begin() as transaction:
VBegin ==
    /\ vpc = "begin"
    /\ txn' = "active"
    /\ work' = db
    /\ vpc' = "set_read_only"
    /\ UNCHANGED <<configVars, auxVars, ragVars, request, loopState, vquery, vret, validation_engine,
                   read_only, db, connOpen, cursor, exc, caught, connects, sent,
                   dbBefore>>

\* try: connection.execute(text("SET TRANSACTION READ ONLY"))
\* except SQLAlchemyError: pass
VSetReadOnly ==
    /\ vpc = "set_read_only"
    /\ sent' = sent + 1
    /\ \/ /\ read_only' = TRUE
          /\ vpc' = "execute"
          /\ exc' = exc
       \/ \E f \in DriverFaults \cup {DBAPIError("syntax error at or near SET")} :
             IF f.cls = "SQLAlchemyError"
             THEN /\ vpc' = "execute"
                  /\ UNCHANGED <<read_only, exc>>
             ELSE /\ exc' = f
                  /\ vpc' = "exit_transaction"
                  /\ read_only' = read_only
    /\ UNCHANGED <<configVars, auxVars, ragVars, request, loopState, vquery, vret, validation_engine,
                   dbVars, caught, connects, dbBefore>>

\* result = connection.execute(text(sql_query))
VStatement ==
    /\ vpc = "execute"
    /\ sent' = sent + 1
    /\ LET o == DbExecute(vquery, work, read_only) IN
       \/ /\ o.ok
          /\ work' = o.rows
          /\ cursor' = o.returned
          /\ vpc' = IF StartsWithSelect(vquery) THEN "fetch" ELSE "rollback"
          /\ exc' = exc
       \/ /\ ~o.ok
          /\ exc' = DBAPIError(o.error)
          /\ vpc' = "exit_transaction"
          /\ UNCHANGED <<work, cursor>>
       \/ \E f \in DriverFaults :
             /\ exc' = f
             /\ vpc' = "exit_transaction"
             /\ UNCHANGED <<work, cursor>>
    /\ UNCHANGED <<configVars, auxVars, ragVars, request, loopState, vquery, vret, validation_engine,
                   read_only, db, txn, connOpen, caught, connects, dbBefore>>

\* try: result.fetchone()  except Exception: pass
VFetchOne ==
    /\ vpc = "fetch"
    /\ vpc' = "rollback"
    /\ UNCHANGED <<configVars, auxVars, ragVars, request, loopState, vquery, vret, validation_engine,
                   read_only, dbVars, exc, caught, connects, sent, dbBefore>>

\* transaction.rollback()
VRollback ==
    /\ vpc = "rollback"
    /\ \/ /\ txn' = "rolled_back"
          /\ work' = db
          /\ vpc' = "exit_transaction"
          /\ exc' = exc
       \/ \E f \in DriverFaults :
             /\ exc' = f
             /\ vpc' = "exit_transaction"
             /\ UNCHANGED <<txn, work>>
    /\ UNCHANGED <<configVars, auxVars, ragVars, request, loopState, vquery, vret, validation_engine,
                   read_only, db, connOpen, cursor, caught, connects, sent,
                   dbBefore>>

\* leaving "with connection.begin()"
VExitTransaction ==
    /\ vpc = "exit_transaction"
    /\ vpc' = "close"
    /\ IF txn = "active"
       THEN IF exc = NoExc
            THEN /\ db' = work
                 /\ txn' = "committed"
                 /\ exc' = exc
            ELSE \/ /\ txn' = "rolled_back"
                    /\ UNCHANGED <<db, exc>>
                 \/ \E f \in DriverFaults :
                       /\ exc' = f
                       /\ UNCHANGED <<db, txn>>
       ELSE UNCHANGED <<db, txn, exc>>
    /\ UNCHANGED <<configVars, auxVars, ragVars, request, loopState, vquery, vret, validation_engine,
                   read_only, work, connOpen, cursor, caught, connects, sent,
                   dbBefore>>

\* leaving "with engine.connect()", then return True, "SQL syntax validation
\* successful" unless an exception is on its way to the except clauses
VClose ==
    /\ vpc = "close"
    /\ connOpen' = FALSE
    /\ txn' = IF txn = "active" THEN "rolled_back" ELSE txn
    /\ \/ /\ exc = NoExc
          /\ vret' = [valid |-> TRUE, message |-> VALIDATION_OK_MESSAGE,
                      set |-> TRUE]
          /\ vpc' = "done"
          /\ exc' = exc
       \/ /\ exc # NoExc
          /\ vpc' = "handler"
          /\ UNCHANGED <<vret, exc>>
       \/ \E f \in DriverFaults :
             /\ exc' = f
             /\ vpc' = "handler"
             /\ vret' = vret
    /\ UNCHANGED <<configVars, auxVars, ragVars, request, loopState, vquery, validation_engine, read_only,
                   db, work, cursor, caught, connects, sent, dbBefore>>

\* except SQLAlchemyError as e: return False, f"SQL syntax error: {first line}"
\* except Exception as e: return False, f"Validation error: {str(e)}"
VHandler ==
    /\ vpc = "handler"
    /\ HandlerFor(exc) # "unhandled"
    /\ vret' = [valid |-> FALSE,
                message |-> IF HandlerFor(exc) = "except SQLAlchemyError"
                            THEN "SQL syntax error: " \o exc.line1
                            ELSE "Validation error: " \o exc.str,
                set |-> TRUE]
    /\ caught' = exc
    /\ exc' = NoExc
    /\ vpc' = "done"
    /\ UNCHANGED <<configVars, auxVars, ragVars, request, loopState, vquery, validation_engine, read_only,
                   dbVars, connects, sent, dbBefore>>

\* the caller has the tuple; the frame of validate_sql_syntax is gone
VFinish ==
    /\ vpc = "done"
    /\ vpc' = "none"
    /\ vquery' = <<>>
    /\ vret' = NoVRet
    /\ read_only' = FALSE
    /\ caught' = NoExc
    /\ cursor' = 0
    /\ work' = 0
    /\ txn' = "none"
    /\ connects' = 0
    /\ sent' = 0
    /\ dbBefore' = 0
    /\ UNCHANGED <<configVars, auxVars, ragVars, request, loopState, validation_engine, db, connOpen, exc>>

\* ------------------------------------------------------ validate_sql_query
\* str.rstrip(';')
RECURSIVE RStripSemicolons(_)
RStripSemicolons(s) ==
    IF s = <<>> THEN <<>>
    ELSE IF s[Len(s)] = ";" THEN RStripSemicolons(SubSeq(s, 1, Len(s) - 1))
    ELSE s

\* queries a caller validates: the texts of the generator, an empty and a
\* whitespace-only text, and a read that ends in a semicolon and a newline
ValidatorInputs ==
    RawOutputs \cup
    { <<>>, <<" ", "\n">>,
      <<"select", " ", "*", " ", "from", " ", "users", ";", "\n">> }

\* one statement of every kind the dangerous list names, in upper case, in
\* lower case and capitalised
MutatingStatements ==
    { <<"DROP", " ", "TABLE", " ", "users">>,
      <<"drop", " ", "table", " ", "users">>,
      <<"Drop", " ", "Table", " ", "users">>,
      <<"DELETE", " ", "FROM", " ", "users">>,
      <<"delete", "\n", "from", " ", "users">>,
      <<"Delete", " ", "From", " ", "users">>,
      <<"TRUNCATE", " ", "TABLE", " ", "users">>,
      <<"truncate", " ", "table", " ", "users">>,
      <<"Truncate", " ", "Table", " ", "users">>,
      <<"INSERT", " ", "INTO", " ", "users", " ", "VALUES", " ", "(1)">>,
      <<"insert", " ", "into", " ", "users", " ", "values", " ", "(1)">>,
      <<"Insert", " ", "Into", " ", "users", " ", "values", " ", "(1)">>,
      <<"UPDATE", " ", "users", " ", "SET", " ", "name", "=", "'x'">>,
      <<"update", " ", "users", " ", "set", " ", "name", "=", "'x'">>,
      <<"Update", " ", "users", " ", "Set", " ", "name", "=", "'x'">>,
      <<"ALTER", " ", "TABLE", " ", "users", " ", "ADD", " ", "age INT">>,
      <<"alter", " ", "table", " ", "users", " ", "add", " ", "age INT">>,
      <<"Alter", " ", "Table", " ", "users", " ", "add", " ", "age INT">>,
      <<"CREATE", " ", "TABLE", " ", "t", " ", "(", "id INT", ")">>,
      <<"create", " ", "table", " ", "t", " ", "(", "id INT", ")">>,
      <<"Create", " ", "Table", " ", "t", " ", "(", "id INT", ")">>,
      <<"GRANT", " ", "ALL", " ", "ON", " ", "users", " ", "TO", " ", "bob">>,
      <<"grant", " ", "all", " ", "on", " ", "users", " ", "to", " ", "bob">>,
      <<"Grant", " ", "all", " ", "on", " ", "users", " ", "to", " ", "bob">>,
      <<"REVOKE", " ", "ALL", " ", "ON", " ", "users", " ", "FROM", " ", "bob">>,
      <<"revoke", " ", "all", " ", "on", " ", "users", " ", "from", " ", "bob">>,
      <<"Revoke", " ", "all", " ", "on", " ", "users", " ", "from", " ", "bob">> }

\* the frame of validate_sql_query and the tuple it returns
ValidateFrame(sql_query, at, stripped) ==
    [fn |-> "validate_sql_query", arg |-> sql_query, pc |-> at,
     sql_query |-> stripped]
Returned2(fn, valid, message) ==
    [fn |-> fn, valid |-> valid, message |-> message]

\* the safety check is left out: the text goes on to the database check
ValidateSqlQueryCall_NoSafetyCheck(sql_query) ==
    /\ pc = "idle"
    /\ vpc = "none"
    /\ fn_call = NoCall
    /\ LET stripped == RStripSemicolons(Strip(sql_query))
       IN  IF Strip(sql_query) = <<>>
           THEN /\ fn_call' = ValidateFrame(sql_query, "returned", <<>>)
                /\ fn_ret' = Returned2("validate_sql_query", FALSE,
                                       "Empty query provided")
           ELSE /\ fn_call' = ValidateFrame(sql_query, "get_engine", stripped)
                /\ fn_ret' = NoCall
    /\ UNCHANGED <<coreVars, ragVars, request, threads, v1, retired>>

\* validate_sql_query(sql_query) up to its call of get_validation_engine:
\*   if not sql_query or not sql_query.strip(): return False, "Empty query provided"
\*   sql_query = sql_query.strip().rstrip(';')
\*   is_safe, safety_message = is_safe_query(sql_query)
\*   if not is_safe: return False, safety_message
ValidateSqlQueryCall(sql_query) ==
    /\ pc = "idle"
    /\ vpc = "none"
    /\ fn_call = NoCall
    /\ LET stripped == RStripSemicolons(Strip(sql_query))
           safety   == is_safe_query(stripped)
       IN  IF Strip(sql_query) = <<>>
           THEN /\ fn_call' = ValidateFrame(sql_query, "returned", <<>>)
                /\ fn_ret' = Returned2("validate_sql_query", FALSE,
                                       "Empty query provided")
           ELSE IF ~safety.is_safe
           THEN /\ fn_call' = ValidateFrame(sql_query, "returned", stripped)
                /\ fn_ret' = Returned2("validate_sql_query", FALSE,
                                       safety.message)
           ELSE /\ fn_call' = ValidateFrame(sql_query, "get_engine", stripped)
                /\ fn_ret' = NoCall
    /\ UNCHANGED <<coreVars, ragVars, request, threads, v1, retired>>

\* engine = get_validation_engine()
\* if not engine: return True, "Safety check passed (database validation skipped)"
\* return validate_sql_syntax(sql_query): the call is made
ValidateQueryGetEngine ==
    /\ fn_call.fn = "validate_sql_query"
    /\ fn_call.pc = "get_engine"
    /\ validation_engine' =
          IF validation_engine # "uncached" THEN validation_engine
          ELSE IF ~DatabaseConfigured \/ CreateEngineFails THEN "None"
          ELSE "Engine"
    /\ IF validation_engine' = "None"
       THEN /\ fn_call' = [fn_call EXCEPT !.pc = "returned"]
            /\ fn_ret' = Returned2("validate_sql_query", TRUE,
                  "Safety check passed (database validation skipped)")
            /\ UNCHANGED <<vpc, vquery, vret, dbBefore, connects, sent, caught>>
       ELSE /\ fn_call' = [fn_call EXCEPT !.pc = "syntax"]
            /\ fn_ret' = NoCall
            /\ vquery' = fn_call.sql_query
            /\ vpc' = "get_engine"
            /\ vret' = NoVRet
            /\ dbBefore' = db
            /\ connects' = 0
            /\ sent' = 0
            /\ caught' = NoExc
    /\ UNCHANGED <<configVars, threads, v1, retired, ragVars, request, loopState,
                   read_only, dbVars, exc>>

\* validate_sql_syntax has returned: its tuple is the result
ValidateQueryReturn ==
    /\ fn_call.fn = "validate_sql_query"
    /\ fn_call.pc = "syntax"
    /\ vpc = "done"
    /\ fn_call' = [fn_call EXCEPT !.pc = "returned"]
    /\ fn_ret' = Returned2("validate_sql_query", vret.valid, vret.message)
    /\ UNCHANGED <<coreVars, ragVars, request, threads, v1, retired>>

\* is_safe_query(sql_query) called on its own
IsSafeQueryCall(sql_query) ==
    /\ pc = "idle"
    /\ vpc = "none"
    /\ fn_call = NoCall
    /\ fn_call' = [fn |-> "is_safe_query", arg |-> sql_query,
                   pc |-> "returned", sql_query |-> sql_query]
    /\ fn_ret' = Returned2("is_safe_query", is_safe_query(sql_query).is_safe,
                           is_safe_query(sql_query).message)
    /\ UNCHANGED <<coreVars, ragVars, request, threads, v1, retired>>

\* the caller has the tuple; the frames are gone
FnReturn ==
    /\ fn_call # NoCall
    /\ fn_call.pc = "returned"
    /\ fn_call' = NoCall
    /\ fn_ret' = NoCall
    /\ IF vpc = "done"
       THEN /\ vpc' = "none"
            /\ vquery' = <<>>
            /\ vret' = NoVRet
            /\ read_only' = FALSE
            /\ caught' = NoExc
            /\ cursor' = 0
            /\ work' = 0
            /\ txn' = "none"
            /\ connects' = 0
            /\ sent' = 0
            /\ dbBefore' = 0
       ELSE UNCHANGED <<vpc, vquery, vret, read_only, caught, cursor, work,
                        txn, connects, sent, dbBefore>>
    /\ UNCHANGED <<configVars, ragVars, request, loopState, validation_engine,
                   db, connOpen, exc, threads, v1, retired>>

\* ---------------------------------------------------------------- SchemaRAG
InProgress(t) == writer[t].pc # "idle"
ReaderRunning == reader.pc \notin {"idle", "returned", "raised"}

\* a rebuild call by thread t begins: bookkeeping of what overlaps what
NoteRebuild(t, indexing) ==
    /\ rebuilds' = rebuilds + 1
    /\ overlapped' = (overlapped \/ \E u \in Writers \ {t} : InProgress(u))
    /\ reader' = IF ReaderRunning
                 THEN [reader EXCEPT !.quiet = FALSE,
                                     !.indexing = @ \/ indexing]
                 ELSE reader

\* a schema text without tables resets the index instead of leaving it
IndexSchemaCall_ResetsOnEmpty(t, schema_sql) ==
    /\ ~InProgress(t)
    /\ rebuilds < MaxRebuilds
    /\ LET documents == parse_schema_to_chunks(schema_sql)
       IN  IF documents = <<>>
           THEN /\ writer' = [writer EXCEPT ![t] =
                       [IdleWriter EXCEPT !.call = rebuilds + 1]]
                /\ rebuilds' = rebuilds + 1
                /\ vectorstore' = 0
                /\ schema_loaded' = FALSE
                /\ UNCHANGED <<overlapped, reader, coll_id, coll_docs,
                               coll_made>>
           ELSE /\ writer' = [writer EXCEPT ![t] =
                       [pc |-> "from_documents", op |-> "index_schema",
                        call |-> rebuilds + 1, documents |-> documents,
                        store |-> 0, raised |-> None]]
                /\ NoteRebuild(t, TRUE)
                /\ UNCHANGED storeVars
    /\ UNCHANGED <<coreVars, auxVars, queries, activeTables, request>>

\* index_schema(schema_sql): documents = self.parse_schema_to_chunks(...);
\* "if not documents: return" (the thread keeps the number of that call)
IndexSchemaCall(t, schema_sql) ==
    /\ ~InProgress(t)
    /\ rebuilds < MaxRebuilds
    /\ LET documents == parse_schema_to_chunks(schema_sql)
       IN  IF documents = <<>>
           THEN /\ writer' = [writer EXCEPT ![t] =
                       [IdleWriter EXCEPT !.call = rebuilds + 1]]
                /\ rebuilds' = rebuilds + 1
                /\ UNCHANGED <<overlapped, reader>>
           ELSE /\ writer' = [writer EXCEPT ![t] =
                       [pc |-> "from_documents", op |-> "index_schema",
                        call |-> rebuilds + 1, documents |-> documents,
                        store |-> 0, raised |-> None]]
                /\ NoteRebuild(t, TRUE)
    /\ UNCHANGED <<coreVars, auxVars, storeVars, queries, activeTables, request>>

\* Chroma.from_documents(documents, embedding, persist_directory): opens the
\* collection of the directory, creating it only if there is none, and adds
\* the documents under fresh ids
IndexFromDocuments(t) ==
    /\ writer[t].pc = "from_documents"
    /\ LET w == writer[t]
           entries == [i \in 1..Len(w.documents) |->
                          [gen |-> w.call,
                           table_name |-> w.documents[i].table_name,
                           columns |-> w.documents[i].columns,
                           full_definition |-> w.documents[i].full_definition]]
           id == IF coll_id = 0 THEN coll_made + 1 ELSE coll_id
       IN  /\ coll_id' = id
           /\ coll_made' = IF coll_id = 0 THEN coll_made + 1 ELSE coll_made
           /\ coll_docs' = IF coll_id = 0 THEN entries ELSE coll_docs \o entries
           /\ writer' = [writer EXCEPT ![t].store = id,
                                       ![t].pc = "assign_vectorstore"]
    /\ UNCHANGED <<coreVars, auxVars, vectorstore, schema_loaded, reader, rebuilds,
                   queries, activeTables, overlapped, request>>

\* self.vectorstore = <the store from_documents returned>
IndexAssignVectorstore(t) ==
    /\ writer[t].pc = "assign_vectorstore"
    /\ vectorstore' = writer[t].store
    /\ writer' = [writer EXCEPT ![t].pc = "set_loaded"]
    /\ UNCHANGED <<coreVars, auxVars, schema_loaded, coll_id, coll_docs, coll_made,
                   reader, rebuilds, queries, activeTables, overlapped,
                   request>>

\* self.schema_loaded = True; index_schema returns
IndexSetLoaded(t) ==
    /\ writer[t].pc = "set_loaded"
    /\ schema_loaded' = TRUE
    /\ activeTables' = TableNames(writer[t].documents)
    /\ writer' = [writer EXCEPT ![t] = IdleWriter]
    /\ UNCHANGED <<coreVars, auxVars, vectorstore, coll_id, coll_docs, coll_made,
                   reader, rebuilds, queries, overlapped, request>>

\* clear_index(): "if self.vectorstore:"
ClearIndexCall(t) ==
    /\ ~InProgress(t)
    /\ rebuilds < MaxRebuilds
    /\ IF vectorstore = 0
       THEN /\ writer' = [writer EXCEPT ![t] = IdleWriter]
            /\ rebuilds' = rebuilds + 1
            /\ UNCHANGED <<overlapped, reader>>
       ELSE /\ writer' = [writer EXCEPT ![t] =
                   [pc |-> "delete_collection", op |-> "clear_index",
                    call |-> rebuilds + 1, documents |-> <<>>, store |-> 0,
                    raised |-> None]]
            /\ NoteRebuild(t, FALSE)
    /\ UNCHANGED <<coreVars, auxVars, storeVars, queries, activeTables, request>>

\* self.vectorstore.delete_collection(): the attribute is read again
ClearDeleteCollection(t) ==
    /\ writer[t].pc = "delete_collection"
    /\ IF vectorstore = 0
       THEN /\ writer' = [writer EXCEPT ![t] =
                   [IdleWriter EXCEPT !.raised = "AttributeError"]]
            /\ UNCHANGED <<coll_id, coll_docs>>
       ELSE IF vectorstore # coll_id
       THEN /\ writer' = [writer EXCEPT ![t] =
                   [IdleWriter EXCEPT !.raised = "collection does not exist"]]
            /\ UNCHANGED <<coll_id, coll_docs>>
       ELSE /\ coll_id' = 0
            /\ coll_docs' = <<>>
            /\ writer' = [writer EXCEPT ![t].pc = "clear_vectorstore"]
    /\ UNCHANGED <<coreVars, auxVars, vectorstore, schema_loaded, coll_made, reader,
                   rebuilds, queries, activeTables, overlapped, request>>

\* self.vectorstore = None
ClearAssignVectorstore(t) ==
    /\ writer[t].pc = "clear_vectorstore"
    /\ vectorstore' = 0
    /\ writer' = [writer EXCEPT ![t].pc = "clear_loaded"]
    /\ UNCHANGED <<coreVars, auxVars, schema_loaded, coll_id, coll_docs, coll_made,
                   reader, rebuilds, queries, activeTables, overlapped,
                   request>>

\* self.schema_loaded = False; clear_index returns
ClearSetLoaded(t) ==
    /\ writer[t].pc = "clear_loaded"
    /\ schema_loaded' = FALSE
    /\ activeTables' = <<>>
    /\ writer' = [writer EXCEPT ![t] = IdleWriter]
    /\ UNCHANGED <<coreVars, auxVars, vectorstore, coll_id, coll_docs, coll_made,
                   reader, rebuilds, queries, overlapped, request>>

\* values a direct caller passes for top_k and score_threshold
TopKs == {1, 5}
ScoreThresholds == {0, 50}

\* the frame of a reader call at the moment it is made
NewQuery(op, caller, question, top_k, score_threshold) ==
    [pc |-> "check_loaded", op |-> op, caller |-> caller,
     question |-> question, top_k |-> top_k,
     score_threshold |-> score_threshold, results |-> <<>>, ret |-> <<>>,
     raised |-> None,
     quiet |-> \A t \in Writers : ~InProgress(t),
     indexing |-> \E t \in Writers : writer[t].op = "index_schema",
     tablesAtCall |-> activeTables]

\* "if not self.schema_loaded ...: return ''" (or []): the first operand
EnterQuery(q) ==
    reader' = IF ~schema_loaded THEN [q EXCEPT !.pc = "returned"]
              ELSE [q EXCEPT !.pc = "check_vectorstore"]

\* the guard is left out: the call goes straight to the vector store
RetrieveCall_Unguarded(question, top_k, score_threshold) ==
    /\ reader.pc = "idle"
    /\ queries < MaxQueries
    /\ queries' = queries + 1
    /\ reader' = [NewQuery("retrieve_relevant_schema", "direct", question,
                           top_k, score_threshold) EXCEPT !.pc = "search"]
    /\ UNCHANGED <<coreVars, auxVars, storeVars, writer, rebuilds, activeTables,
                   overlapped, request>>

\* a caller invokes retrieve_relevant_schema(question, top_k, score_threshold)
RetrieveCall(question, top_k, score_threshold) ==
    /\ reader.pc = "idle"
    /\ queries < MaxQueries
    /\ queries' = queries + 1
    /\ EnterQuery(NewQuery("retrieve_relevant_schema", "direct", question,
                           top_k, score_threshold))
    /\ UNCHANGED <<coreVars, auxVars, storeVars, writer, rebuilds, activeTables,
                   overlapped, request>>

\* a caller (/rag-status, /index-schema) invokes get_all_table_names()
GetAllTableNamesCall ==
    /\ reader.pc = "idle"
    /\ queries < MaxQueries
    /\ queries' = queries + 1
    /\ EnterQuery(NewQuery("get_all_table_names", "direct", None, 0, 0))
    /\ UNCHANGED <<coreVars, auxVars, storeVars, writer, rebuilds, activeTables,
                   overlapped, request>>

\* "... or not self.vectorstore": the second operand of the guard
CheckVectorstore ==
    /\ reader.pc = "check_vectorstore"
    /\ reader' = IF vectorstore = 0
                 THEN [reader EXCEPT !.pc = "returned"]
                 ELSE [reader EXCEPT !.pc =
                          IF reader.op = "get_all_table_names"
                          THEN "get" ELSE "search"]
    /\ UNCHANGED <<coreVars, auxVars, storeVars, writer, rebuilds, queries,
                   activeTables, overlapped, request>>

\* results = self.vectorstore.similarity_search_with_score(question, k=top_k)
SimilaritySearch ==
    /\ reader.pc = "search"
    /\ reader' =
          IF vectorstore = 0
          THEN [reader EXCEPT !.pc = "raised", !.raised = "AttributeError"]
          ELSE IF vectorstore # coll_id
          THEN [reader EXCEPT !.pc = "raised",
                              !.raised = "collection does not exist"]
          ELSE [reader EXCEPT !.pc = "build",
                   !.results = similarity_search_with_score(
                                   coll_docs, reader.question, reader.top_k)]
    /\ UNCHANGED <<coreVars, auxVars, storeVars, writer, rebuilds, queries,
                   activeTables, overlapped, request>>

\* relevant_docs = [... if score >= score_threshold]; the focused schema is
\* the full definitions of what is left, joined by blank lines
BuildFocusedSchema ==
    /\ reader.pc = "build"
    /\ LET relevant_docs ==
               SelectSeq(reader.results,
                         LAMBDA r : r.score >= reader.score_threshold)
           schema_parts == [i \in 1..Len(relevant_docs) |->
                               relevant_docs[i].doc.full_definition]
       IN  reader' = [reader EXCEPT !.pc = "returned",
                                    !.results = relevant_docs,
                                    !.ret = JoinParts(schema_parts)]
    /\ UNCHANGED <<coreVars, auxVars, storeVars, writer, rebuilds, queries,
                   activeTables, overlapped, request>>

\* all_docs = self.vectorstore.get(); the table_name of every metadata entry
GetTableNames ==
    /\ reader.pc = "get"
    /\ reader' =
          IF vectorstore = 0
          THEN [reader EXCEPT !.pc = "raised", !.raised = "AttributeError"]
          ELSE IF vectorstore # coll_id
          THEN [reader EXCEPT !.pc = "raised",
                              !.raised = "collection does not exist"]
          ELSE [reader EXCEPT !.pc = "returned",
                   !.results = [i \in 1..Len(coll_docs) |->
                                   [doc |-> coll_docs[i], score |-> 0]],
                   !.ret = TableNames(coll_docs)]
    /\ UNCHANGED <<coreVars, auxVars, storeVars, writer, rebuilds, queries,
                   activeTables, overlapped, request>>

\* the direct caller has its answer (or its exception)
ReaderReturn ==
    /\ reader.pc \in {"returned", "raised"}
    /\ reader.caller = "direct"
    /\ reader' = IdleReader
    /\ UNCHANGED <<coreVars, auxVars, storeVars, writer, rebuilds, queries,
                   activeTables, overlapped, request>>

\* ------------------------------------------------- generate_sql (main_v2)
\* get_self_correcting_agent(max_attempts=3)
REQUEST_MAX_ATTEMPTS == 3
\* top_k=5 in the call of retrieve_relevant_schema
REQUEST_TOP_K == 5

RequestSchemas == {<<>>, OTHER_SCHEMA}
RequestFailed(status) == [request EXCEPT !.pc = "failed", !.status = status]

\* POST /generate-sql: "if not db_schema: db_schema = await load_schema()",
\* which answers 400 when the sample schema file is not there
ReceiveRequest(question, db_schema, sample_found) ==
    /\ request.pc = "none"
    /\ request' =
          IF db_schema # <<>>
          THEN [request EXCEPT !.pc = "rag_check", !.question = question,
                               !.db_schema = db_schema, !.schema = db_schema]
          ELSE IF sample_found
          THEN [request EXCEPT !.pc = "rag_check", !.question = question,
                               !.schema = SAMPLE_SCHEMA]
          ELSE [request EXCEPT !.pc = "failed", !.question = question,
                               !.status = 400]
    /\ UNCHANGED <<coreVars, auxVars, ragVars>>

\* rag_enabled = rag.schema_loaded; without it the full schema is used
CheckRagEnabled ==
    /\ request.pc = "rag_check"
    /\ request' =
          IF schema_loaded
          THEN [request EXCEPT !.pc = "retrieve", !.rag_enabled = TRUE]
          ELSE [request EXCEPT !.pc = "analyze", !.rag_enabled = FALSE,
                               !.focused_schema = request.schema]
    /\ UNCHANGED <<coreVars, auxVars, ragVars>>

\* await asyncio.to_thread(rag.retrieve_relevant_schema, question, top_k=5)
CallRetrieve ==
    /\ request.pc = "retrieve"
    /\ reader.pc = "idle"
    /\ EnterQuery(NewQuery("retrieve_relevant_schema", "generate_sql",
                           request.question, REQUEST_TOP_K, 0))
    /\ request' = [request EXCEPT !.pc = "retrieving",
                                  !.stages = Append(@, "retrieval")]
    /\ UNCHANGED <<coreVars, auxVars, storeVars, writer, rebuilds, queries,
                   activeTables, overlapped>>

\* an empty retrieval is used as the schema: no fallback
AfterRetrieve_NoFallback ==
    /\ request.pc = "retrieving"
    /\ reader.pc \in {"returned", "raised"}
    /\ IF reader.pc = "raised"
       THEN /\ request' = [RequestFailed(500) EXCEPT
                               !.retrieval = "raised",
                               !.stages = Append(@, "retrieval raised")]
            /\ reader' = IdleReader
       ELSE IF reader.ret # <<>>
       THEN /\ request' = [request EXCEPT !.pc = "listing",
                                          !.retrieval = "found",
                                          !.stages = Append(@, "retrieval returned"),
                                          !.relevant_schema = reader.ret,
                                          !.focused_schema = reader.ret]
            /\ EnterQuery(NewQuery("get_all_table_names", "generate_sql",
                                   None, 0, 0))
       ELSE /\ request' = [request EXCEPT !.pc = "analyze",
                                          !.retrieval = "empty",
                                          !.stages = Append(@, "retrieval returned"),
                                          !.focused_schema = reader.ret]
            /\ reader' = IdleReader
    /\ UNCHANGED <<coreVars, auxVars, storeVars, writer, rebuilds, queries,
                   activeTables, overlapped>>

\* "if relevant_schema:" the focused schema is used and
\* rag.get_all_table_names() is called; "else:" the full schema is used
AfterRetrieve ==
    /\ request.pc = "retrieving"
    /\ reader.pc \in {"returned", "raised"}
    /\ IF reader.pc = "raised"
       THEN /\ request' = [RequestFailed(500) EXCEPT
                               !.retrieval = "raised",
                               !.stages = Append(@, "retrieval raised")]
            /\ reader' = IdleReader
       ELSE IF reader.ret # <<>>
       THEN /\ request' = [request EXCEPT !.pc = "listing",
                                          !.retrieval = "found",
                                          !.stages = Append(@, "retrieval returned"),
                                          !.relevant_schema = reader.ret,
                                          !.focused_schema = reader.ret]
            /\ EnterQuery(NewQuery("get_all_table_names", "generate_sql",
                                   None, 0, 0))
       ELSE /\ request' = [request EXCEPT !.pc = "analyze",
                                          !.retrieval = "empty",
                                          !.stages = Append(@, "retrieval returned"),
                                          !.focused_schema = request.schema]
            /\ reader' = IdleReader
    /\ UNCHANGED <<coreVars, auxVars, storeVars, writer, rebuilds, queries,
                   activeTables, overlapped>>

\* table_names = ...; tables_retrieved =
\* len(relevant_schema.split("CREATE TABLE")) - 1
AfterTableNames ==
    /\ request.pc = "listing"
    /\ reader.pc \in {"returned", "raised"}
    /\ request' =
          IF reader.pc = "raised" THEN RequestFailed(500)
          ELSE [request EXCEPT !.pc = "analyze", !.table_names = reader.ret,
                   !.tables_retrieved = CountCreateTable(request.relevant_schema)]
    /\ reader' = IdleReader
    /\ UNCHANGED <<coreVars, auxVars, storeVars, writer, rebuilds, queries,
                   activeTables, overlapped>>

\* what the analyzer chain answers is opaque: it stands for the plan made
\* from the schema and the question it was invoked with
StructuredPlan(schema, user_question) ==
    [schema |-> schema, user_question |-> user_question]

\* structured_plan = analyzer_chain.invoke({"schema": focused_schema, ...});
\* an exception of the chain ends the request with status 500
Analyze(returns) ==
    /\ request.pc = "analyze"
    /\ request' = IF returns
                  THEN [request EXCEPT
                           !.pc = "loop",
                           !.analyzed = request.focused_schema,
                           !.plan = StructuredPlan(request.focused_schema,
                                                   request.question),
                           !.stages = @ \o <<"analysis", "analysis returned">>]
                  ELSE [RequestFailed(500) EXCEPT
                           !.analyzed = request.focused_schema,
                           !.stages = @ \o <<"analysis", "analysis raised">>]
    /\ UNCHANGED <<coreVars, auxVars, ragVars>>

\* correcting_agent.generate_with_correction(schema=focused_schema, ...)
StartLoop ==
    /\ request.pc = "loop"
    /\ max_attempts = REQUEST_MAX_ATTEMPTS
    /\ request' = [request EXCEPT !.pc = "in_loop",
                                  !.handed = request.focused_schema,
                                  !.handed_plan = request.plan,
                                  !.stages = Append(@, "loop")]
    /\ BeginRun
    /\ UNCHANGED retired

\* final_sql, success, correction_history = await asyncio.to_thread(
\*     correcting_agent.generate_with_correction, ...): the run is over; an
\* exception that left it reaches "except Exception" and ends the request
\* with status 500
AfterLoop ==
    /\ request.pc = "in_loop"
    /\ pc \in {"returned", "raised"}
    /\ request' =
          IF pc = "raised"
          THEN [RequestFailed(500) EXCEPT !.stages = Append(@, "loop raised")]
          ELSE [request EXCEPT !.pc = "explain",
                               !.final_sql = ret.sql,
                               !.success = ret.success,
                               !.correction_history = ret.history,
                               !.stages = Append(@, "loop returned")]
    /\ UNCHANGED <<coreVars, auxVars, ragVars>>

\* what the explainer chain answers is opaque: it stands for the explanation
\* of the query it was invoked with
ExplanationOf(sql_query) == [sql_query |-> sql_query]

\* the explainer is invoked with the first candidate of the run
Explain_FirstCandidate(returns) ==
    /\ request.pc = "explain"
    /\ LET sql == request.correction_history[1].sql_query IN
       request' =
          IF returns
          THEN [request EXCEPT
                   !.pc = "respond",
                   !.explained = sql,
                   !.explanation = ExplanationOf(sql),
                   !.stages = @ \o <<"explanation", "explanation returned">>]
          ELSE [RequestFailed(500) EXCEPT
                   !.explained = sql,
                   !.stages = @ \o <<"explanation", "explanation raised">>]
    /\ UNCHANGED <<coreVars, auxVars, ragVars>>

\* explanation = await asyncio.to_thread(explainer_chain.invoke,
\*                                       {"sql_query": final_sql})
Explain(returns) ==
    /\ request.pc = "explain"
    /\ request' =
          IF returns
          THEN [request EXCEPT
                   !.pc = "respond",
                   !.explained = request.final_sql,
                   !.explanation = ExplanationOf(request.final_sql),
                   !.stages = @ \o <<"explanation", "explanation returned">>]
          ELSE [RequestFailed(500) EXCEPT
                   !.explained = request.final_sql,
                   !.stages = @ \o <<"explanation", "explanation raised">>]
    /\ UNCHANGED <<coreVars, auxVars, ragVars>>

\* ValidationStatus.SUCCESS if success else ValidationStatus.FAILED
ValidationStatus(success) == IF success THEN "success" ELSE "failed"

\* the message names the number of attempts and, for a failed loop, the
\* error of the last attempt
ValidationMessage(success, history) ==
    IF success
    THEN [text |-> "Query executed successfully",
          attempts |-> IF Len(history) > 1 THEN {Len(history)} ELSE {},
          last_error |-> {}]
    ELSE [text |-> "Query validation failed", attempts |-> {Len(history)},
          last_error |-> IF history # <<>>
                         THEN {history[Len(history)].error_message}
                         ELSE {"Unknown error"}]

\* the history is formatted newest first
FormatHistory_Reversed(history) ==
    IF history = <<>> THEN {}
    ELSE {[i \in 1..Len(history) |->
              [attempt |-> history[Len(history) + 1 - i].attempt_number,
               error |-> history[Len(history) + 1 - i].error_message,
               success |-> history[Len(history) + 1 - i].success]]}

\* [{"attempt": att.attempt_number, "error": att.error_message,
\*   "success": att.success} for att in correction_history]
\*     if correction_history else None
FormatHistory(history) ==
    IF history = <<>> THEN {}
    ELSE {[i \in 1..Len(history) |->
              [attempt |-> history[i].attempt_number,
               error |-> history[i].error_message,
               success |-> history[i].success]]}

\* the flag is set only when retrieval found something
RagEnabledOf_OnlyWhenFound(r) == r.rag_enabled /\ r.retrieval = "found"

\* rag_enabled=rag_enabled
RagEnabledOf(r) == r.rag_enabled

\* return QueryResponse(...); optional fields hold a set: {} is None
QueryResponse(r) ==
    [natural_language_question |-> r.question,
     sql_query |-> r.final_sql,
     explanation |-> r.explanation,
     validation_status |-> ValidationStatus(r.success),
     validation_message |-> ValidationMessage(r.success, r.correction_history),
     tables_retrieved |-> IF r.rag_enabled THEN {r.tables_retrieved} ELSE {},
     rag_enabled |-> RagEnabledOf(r),
     correction_attempts |-> Len(r.correction_history),
     self_correction_applied |-> Len(r.correction_history) > 1,
     correction_history |-> FormatHistory(r.correction_history)]

Respond ==
    /\ request.pc = "respond"
    /\ request' = [request EXCEPT !.pc = "responded", !.status = 200,
                                  !.response = QueryResponse(request)]
    /\ UNCHANGED <<coreVars, auxVars, ragVars>>

Next ==
    \/ StartRun \/ GenerateInitialSqlReturns \/ GenerateInitialSqlRaises
    \/ LoopHead \/ RecordAttempt \/ Decide
    \/ CorrectSqlReturns \/ CorrectSqlRaises
    \/ ExecCheck \/ ExecCreateEngine \/ ExecConnect \/ ExecBegin
    \/ ExecStatement \/ ExecFetch \/ ExecRollback \/ ExecReturn
    \/ ExecExitTransaction \/ ExecClose \/ ExecHandler
    \/ ValidateSqlSyntax \/ GetValidationEngine \/ VConnect \/ VBegin
    \/ VSetReadOnly \/ VStatement \/ VFetchOne \/ VRollback
    \/ VExitTransaction \/ VClose \/ VHandler \/ VFinish

Spec == Init /\ [][Next]_vars

\* the shared schema index under concurrent rebuild calls and a query
RagInit ==
    /\ Init
    /\ max_attempts = REQUEST_MAX_ATTEMPTS
    /\ database_url = None

RagNext ==
    \/ \E t \in Writers, schema_sql \in SchemaTexts : IndexSchemaCall(t, schema_sql)
    \/ \E t \in Writers : IndexFromDocuments(t)
    \/ \E t \in Writers : IndexAssignVectorstore(t)
    \/ \E t \in Writers : IndexSetLoaded(t)
    \/ \E t \in Writers : ClearIndexCall(t)
    \/ \E t \in Writers : ClearDeleteCollection(t)
    \/ \E t \in Writers : ClearAssignVectorstore(t)
    \/ \E t \in Writers : ClearSetLoaded(t)
    \/ \E question \in Questions, top_k \in TopKs,
          score_threshold \in ScoreThresholds :
              RetrieveCall(question, top_k, score_threshold)
    \/ GetAllTableNamesCall
    \/ CheckVectorstore \/ SimilaritySearch \/ BuildFocusedSchema
    \/ GetTableNames \/ ReaderReturn

RagSpec == RagInit /\ [][RagNext]_vars

\* a v2 request, up to the point where it enters the correction loop, with
\* one thread rebuilding the shared index beside it
RequestWriters == {"w1"}

RequestNext ==
    \/ \E t \in RequestWriters, schema_sql \in SchemaTexts :
          IndexSchemaCall(t, schema_sql)
    \/ \E t \in RequestWriters : IndexFromDocuments(t)
    \/ \E t \in RequestWriters : IndexAssignVectorstore(t)
    \/ \E t \in RequestWriters : IndexSetLoaded(t)
    \/ \E t \in RequestWriters : ClearIndexCall(t)
    \/ \E t \in RequestWriters : ClearDeleteCollection(t)
    \/ \E t \in RequestWriters : ClearAssignVectorstore(t)
    \/ \E t \in RequestWriters : ClearSetLoaded(t)
    \/ CheckVectorstore \/ SimilaritySearch \/ BuildFocusedSchema
    \/ GetTableNames
    \/ \E question \in Questions, db_schema \in RequestSchemas,
          sample_found \in BOOLEAN :
              ReceiveRequest(question, db_schema, sample_found)
    \/ CheckRagEnabled \/ CallRetrieve \/ AfterRetrieve \/ AfterTableNames
    \/ \E returns \in BOOLEAN : Analyze(returns)
    \/ StartLoop

RequestSpec == RagInit /\ [][RequestNext]_vars

\* a v2 request from its arrival to its response, on a service whose startup
\* event may have indexed the sample schema and whose index may be cleared
\* while the request is on its way to the loop
PipelineInit ==
    /\ Init
    /\ max_attempts = REQUEST_MAX_ATTEMPTS
    /\ database_url \in {None, "postgresql://localhost/test"}

RequestArrived == request.pc # "none"
RequestInLoop ==
    request.pc \in {"in_loop", "explain", "respond", "responded", "failed"}

PipelineNext ==
    \/ /\ ~RequestArrived
       /\ rebuilds = 0
       /\ \E t \in RequestWriters : IndexSchemaCall(t, SAMPLE_SCHEMA)
    \/ \E t \in RequestWriters : IndexFromDocuments(t)
    \/ \E t \in RequestWriters : IndexAssignVectorstore(t)
    \/ \E t \in RequestWriters : IndexSetLoaded(t)
    \/ /\ RequestArrived
       /\ ~RequestInLoop
       /\ \E t \in RequestWriters : ClearIndexCall(t)
    \/ \E t \in RequestWriters : ClearDeleteCollection(t)
    \/ \E t \in RequestWriters : ClearAssignVectorstore(t)
    \/ \E t \in RequestWriters : ClearSetLoaded(t)
    \/ CheckVectorstore \/ SimilaritySearch \/ BuildFocusedSchema
    \/ GetTableNames
    \/ /\ \A t \in RequestWriters : ~InProgress(t)
       /\ \E question \in Questions, db_schema \in RequestSchemas,
             sample_found \in BOOLEAN :
                 ReceiveRequest(question, db_schema, sample_found)
    \/ CheckRagEnabled \/ CallRetrieve \/ AfterRetrieve \/ AfterTableNames
    \/ \E returns \in BOOLEAN : Analyze(returns)
    \/ StartLoop
    \/ GenerateInitialSqlReturns \/ GenerateInitialSqlRaises
    \/ LoopHead \/ RecordAttempt \/ Decide
    \/ CorrectSqlReturns \/ CorrectSqlRaises
    \/ ExecCheck \/ ExecCreateEngine \/ ExecConnect \/ ExecBegin
    \/ ExecStatement \/ ExecFetch \/ ExecRollback \/ ExecReturn
    \/ ExecExitTransaction \/ ExecClose \/ ExecHandler
    \/ AfterLoop
    \/ \E returns \in BOOLEAN : Explain(returns)
    \/ Respond

PipelineSpec == PipelineInit /\ [][PipelineNext]_vars

\* ------------------------------------------------- two concurrent requests
\* what belongs to one request's worker thread: the agent object that
\* get_self_correcting_agent made for it (max_attempts is 3 for both), the
\* position and the locals of its run, its connection
Frame ==
    [pc |-> pc, xpc |-> xpc, attempt |-> attempt, current_sql |-> current_sql,
     correction_history |-> correction_history, result |-> result,
     ret |-> ret, exc |-> exc, raisedIn |-> raisedIn, run |-> run,
     genLog |-> genLog, corrLog |-> corrLog, execCalls |-> execCalls,
     execLog |-> execLog, pending |-> pending, row_count |-> row_count,
     caught |-> caught, cursor |-> cursor, work |-> work, txn |-> txn,
     connOpen |-> connOpen, connects |-> connects, sent |-> sent,
     dbBefore |-> dbBefore]

\* SelfCorrectingAgent(max_attempts=3): a new object with an empty history
NewAgentFrame ==
    [pc |-> "idle", xpc |-> "none", attempt |-> 0, current_sql |-> <<>>,
     correction_history |-> <<>>, result |-> NoResult,
     ret |-> NoRet, exc |-> NoExc, raisedIn |-> None, run |-> 0,
     genLog |-> <<>>, corrLog |-> <<>>, execCalls |-> 0,
     execLog |-> <<>>, pending |-> NoResult, row_count |-> {},
     caught |-> NoExc, cursor |-> 0, work |-> 0, txn |-> "none",
     connOpen |-> FALSE, connects |-> 0, sent |-> 0, dbBefore |-> 0]

\* a second request arrives while the first is handled: asyncio.to_thread
\* gives its run a worker thread of its own, with its own agent
SecondRequestArrives ==
    /\ ~threads.parked
    /\ threads' = [parked |-> TRUE, current |-> 1, frame |-> NewAgentFrame]
    /\ UNCHANGED <<coreVars, ragVars, request, fn_call, fn_ret, v1, retired>>

\* one agent object serves both requests: self.correction_history is the
\* same list in both threads
Switch_SharedAgent ==
    /\ threads.parked
    /\ threads' = [parked |-> TRUE, current |-> 3 - threads.current,
                   frame |-> Frame]
    /\ LET f == threads.frame IN
       /\ pc' = f.pc
       /\ xpc' = f.xpc
       /\ attempt' = f.attempt
       /\ current_sql' = f.current_sql
       /\ correction_history' = correction_history
       /\ result' = f.result
       /\ ret' = f.ret
       /\ exc' = f.exc
       /\ raisedIn' = f.raisedIn
       /\ run' = f.run
       /\ genLog' = f.genLog
       /\ corrLog' = f.corrLog
       /\ execCalls' = f.execCalls
       /\ execLog' = f.execLog
       /\ pending' = f.pending
       /\ row_count' = f.row_count
       /\ caught' = f.caught
       /\ cursor' = f.cursor
       /\ work' = f.work
       /\ txn' = f.txn
       /\ connOpen' = f.connOpen
       /\ connects' = f.connects
       /\ sent' = f.sent
       /\ dbBefore' = f.dbBefore
    /\ UNCHANGED <<configVars, validatorVars, db, ragVars, request, fn_call,
                   fn_ret, v1, retired>>

\* the scheduler takes the running worker thread off and puts the other on:
\* each thread has its own agent, locals and connection; the database and
\* the settings are shared
Switch ==
    /\ threads.parked
    /\ threads' = [parked |-> TRUE, current |-> 3 - threads.current,
                   frame |-> Frame]
    /\ LET f == threads.frame IN
       /\ pc' = f.pc
       /\ xpc' = f.xpc
       /\ attempt' = f.attempt
       /\ current_sql' = f.current_sql
       /\ correction_history' = f.correction_history
       /\ result' = f.result
       /\ ret' = f.ret
       /\ exc' = f.exc
       /\ raisedIn' = f.raisedIn
       /\ run' = f.run
       /\ genLog' = f.genLog
       /\ corrLog' = f.corrLog
       /\ execCalls' = f.execCalls
       /\ execLog' = f.execLog
       /\ pending' = f.pending
       /\ row_count' = f.row_count
       /\ caught' = f.caught
       /\ cursor' = f.cursor
       /\ work' = f.work
       /\ txn' = f.txn
       /\ connOpen' = f.connOpen
       /\ connects' = f.connects
       /\ sent' = f.sent
       /\ dbBefore' = f.dbBefore
    /\ UNCHANGED <<configVars, validatorVars, db, ragVars, request, fn_call,
                   fn_ret, v1, retired>>

ConcurrentInit ==
    /\ Init
    /\ max_attempts = REQUEST_MAX_ATTEMPTS
    /\ database_url = None

\* each of the two requests runs the loop once; no database is configured,
\* so execute_sql returns from its first check
ConcurrentNext ==
    \/ SecondRequestArrives
    \/ Switch
    \/ (run = 0 /\ StartRun)
    \/ GenerateInitialSqlReturns \/ GenerateInitialSqlRaises
    \/ LoopHead \/ RecordAttempt \/ Decide
    \/ CorrectSqlReturns \/ CorrectSqlRaises
    \/ ExecCheck

ConcurrentSpec == ConcurrentInit /\ [][ConcurrentNext]_vars

\* ---------------------------------------- parse_schema_to_chunks on its own
\* the chunker is called with a schema text
ParseInit ==
    /\ Constructed
    /\ max_attempts = REQUEST_MAX_ATTEMPTS
    /\ database_url = None
    /\ \E in \in ParseInputs :
          fn_call = [fn |-> "parse_schema_to_chunks", arg |-> in.text,
                     expect |-> in.tables, round |-> 1, chunk |-> 0,
                     of |-> 0, value |-> <<>>]

\* documents = parse_schema_to_chunks(schema_sql)
ParseSchemaToChunks ==
    /\ fn_call.fn = "parse_schema_to_chunks"
    /\ fn_ret = NoCall
    /\ fn_ret' = [fn_call EXCEPT !.value = parse_schema_to_chunks(fn_call.arg)]
    /\ UNCHANGED <<coreVars, ragVars, request, threads, fn_call, v1, retired>>

\* the full_definition of a chunk that was returned is parsed again
Reparse(i) ==
    /\ fn_ret.fn = "parse_schema_to_chunks"
    /\ i \in 1..Len(fn_ret.value)
    /\ fn_call' = [fn |-> "parse_schema_to_chunks",
                   arg |-> fn_ret.value[i].full_definition,
                   expect |-> <<[table_name |-> fn_ret.value[i].table_name,
                                 columns |-> fn_ret.value[i].columns]>>,
                   round |-> 2, chunk |-> i, of |-> Len(fn_ret.value),
                   value |-> <<>>]
    /\ fn_ret' = NoCall
    /\ UNCHANGED <<coreVars, ragVars, request, threads, v1, retired>>

ParseNext ==
    \/ ParseSchemaToChunks
    \/ \E i \in 1..(MaxTables + 1) : Reparse(i)

ParseSpec == ParseInit /\ [][ParseNext]_vars

\* ------------------------------------------------- generate_sql (main, v1)
V1Failed(status, e) == [v1 EXCEPT !.pc = "failed", !.status = status, !.exc = e]

\* POST /generate-sql of main.py: "if not db_schema: db_schema = await
\* load_schema()", which answers 400 when the sample schema file is not there
V1ReceiveRequest(question, db_schema, sample_found) ==
    /\ v1.pc = "none"
    /\ v1' =
          IF db_schema # <<>>
          THEN [v1 EXCEPT !.pc = "analyze", !.question = question,
                          !.db_schema = db_schema, !.schema = db_schema]
          ELSE IF sample_found
          THEN [v1 EXCEPT !.pc = "analyze", !.question = question,
                          !.schema = SAMPLE_SCHEMA]
          ELSE [v1 EXCEPT !.pc = "failed", !.question = question,
                          !.status = 400]
    /\ UNCHANGED <<coreVars, ragVars, request, threads, fn_call, fn_ret, retired>>

\* structured_plan = await asyncio.to_thread(analyzer_chain.invoke, {...});
\* an exception of the chain ends the request with status 500
V1Analyze(returns) ==
    /\ v1.pc = "analyze"
    /\ \/ /\ returns
          /\ v1' = [v1 EXCEPT !.pc = "run_agents",
                              !.plan = StructuredPlan(v1.schema, v1.question),
                              !.invoked = @ \cup {"analyzer_chain"}]
       \/ /\ ~returns
          /\ \E f \in LLMFaults :
                v1' = [V1Failed(500, f) EXCEPT
                          !.invoked = @ \cup {"analyzer_chain"}]
    /\ UNCHANGED <<coreVars, ragVars, request, threads, fn_call, fn_ret, retired>>

\* sql_query = await asyncio.to_thread(run_generator), first half: the call
\* is handed to a worker thread
V1SubmitGenerator ==
    /\ v1.pc = "run_agents"
    /\ v1' = [v1 EXCEPT !.pc = "await_generator",
                        !.task["run_generator"] = "submitted"]
    /\ UNCHANGED <<coreVars, ragVars, request, threads, fn_call, fn_ret, retired>>

\* the worker thread calls the function it was given. run_generator,
\* run_explainer and run_validator are declared "async def": the call makes
\* a coroutine object and returns it, and their bodies (the chain
\* invocations, validate_sql_query) do not run
V1WorkerCalls(function) ==
    /\ v1.task[function] = "submitted"
    /\ v1' = [v1 EXCEPT !.task[function] = "returned",
                        !.returned[function] = Coroutine(function)]
    /\ UNCHANGED <<coreVars, ragVars, request, threads, fn_call, fn_ret, retired>>

\* sql_query = await asyncio.to_thread(run_generator), second half; then
\* asyncio.gather(asyncio.to_thread(run_explainer),
\*                asyncio.to_thread(run_validator))
V1Gather ==
    /\ v1.pc = "await_generator"
    /\ v1.task["run_generator"] = "returned"
    /\ v1' = [v1 EXCEPT !.pc = "await_gather",
                        !.sql_query = v1.returned["run_generator"],
                        !.task["run_explainer"] = "submitted",
                        !.task["run_validator"] = "submitted"]
    /\ UNCHANGED <<coreVars, ragVars, request, threads, fn_call, fn_ret, retired>>

\* await asyncio.gather(...) returns once both tasks are done
V1GatherReturns ==
    /\ v1.pc = "await_gather"
    /\ v1.task["run_explainer"] = "returned"
    /\ v1.task["run_validator"] = "returned"
    /\ v1' = [v1 EXCEPT !.pc = "unpack"]
    /\ UNCHANGED <<coreVars, ragVars, request, threads, fn_call, fn_ret, retired>>

\* explanation, (is_valid, validation_message) = <what gather returned>:
\* unpacking what run_validator's task returned raises TypeError when it is
\* not iterable, which "except Exception" turns into status 500; otherwise
\* the response is built
V1Unpack ==
    /\ v1.pc = "unpack"
    /\ v1' =
          IF v1.returned["run_validator"].kind = "pair"
          THEN [v1 EXCEPT !.pc = "responded", !.status = 200,
                          !.explanation = v1.returned["run_explainer"]]
          ELSE [V1Failed(500, TypeError) EXCEPT
                          !.explanation = v1.returned["run_explainer"]]
    /\ UNCHANGED <<coreVars, ragVars, request, threads, fn_call, fn_ret, retired>>

\* the service with or without a database for validate_sql_query
V1Init ==
    /\ Init
    /\ max_attempts = REQUEST_MAX_ATTEMPTS
    /\ database_url \in {None, "postgresql://localhost/test"}

V1Next ==
    \/ \E question \in Questions, db_schema \in {<<>>} \cup SchemaTexts,
          sample_found \in BOOLEAN :
              V1ReceiveRequest(question, db_schema, sample_found)
    \/ \E returns \in BOOLEAN : V1Analyze(returns)
    \/ V1SubmitGenerator
    \/ \E function \in V1Tasks : V1WorkerCalls(function)
    \/ V1Gather
    \/ V1GatherReturns
    \/ V1Unpack

V1Spec == V1Init /\ [][V1Next]_vars

\* --------------------------------------------- runs longer than the summary
\* an agent with more attempts than the summary of previous attempts holds,
\* used for several runs; no database is configured, so every attempt fails
\* and execute_sql returns from its first check
LongRunInit ==
    /\ ConstructedWith(LongRunAttempts, None)
    /\ fn_call = NoCall

LongRunNext ==
    \/ StartRun
    \/ GenerateInitialSqlReturns \/ GenerateInitialSqlRaises
    \/ LoopHead \/ RecordAttempt \/ Decide
    \/ CorrectSqlReturns \/ CorrectSqlRaises
    \/ ExecCheck

LongRunSpec == LongRunInit /\ [][LongRunNext]_vars

\* ---------------------------------------------- the validator on its own
\* callers validate one query after the other
ValidateInit ==
    /\ Init
    /\ max_attempts = REQUEST_MAX_ATTEMPTS

ValidateNext ==
    \/ \E sql_query \in ValidatorInputs : ValidateSqlQueryCall(sql_query)
    \/ \E sql_query \in MutatingStatements : IsSafeQueryCall(sql_query)
    \/ ValidateQueryGetEngine \/ ValidateQueryReturn \/ FnReturn
    \/ GetValidationEngine \/ VConnect \/ VBegin
    \/ VSetReadOnly \/ VStatement \/ VFetchOne \/ VRollback
    \/ VExitTransaction \/ VClose \/ VHandler

ValidateSpec == ValidateInit /\ [][ValidateNext]_vars

\* ------------------------------------------ one run after the other
\* one agent, no database: a caller runs generate_with_correction, keeps the
\* history it returned and runs it again
SequentialInit ==
    /\ ConstructedWith(SequentialAttempts, None)
    /\ fn_call = NoCall

SequentialNext ==
    \/ RunAgain
    \/ GenerateInitialSqlReturns \/ GenerateInitialSqlRaises
    \/ LoopHead \/ RecordAttempt \/ Decide
    \/ CorrectSqlReturns \/ CorrectSqlRaises
    \/ ExecCheck

SequentialSpec == SequentialInit /\ [][SequentialNext]_vars

\* one request whose generation and correction calls all return; the loop is
\* sequential code, so a run in progress always takes its next step
RunStep ==
    \/ GenerateInitialSqlReturns \/ LoopHead \/ RecordAttempt \/ Decide
    \/ CorrectSqlReturns
    \/ ExecCheck \/ ExecCreateEngine \/ ExecConnect \/ ExecBegin
    \/ ExecStatement \/ ExecFetch \/ ExecRollback \/ ExecReturn
    \/ ExecExitTransaction \/ ExecClose \/ ExecHandler

LiveNext ==
    \/ StartRun
    \/ GenerateInitialSqlReturns \/ LoopHead \/ RecordAttempt \/ Decide
    \/ CorrectSqlReturns
    \/ ExecCheck \/ ExecCreateEngine \/ ExecConnect \/ ExecBegin
    \/ ExecStatement \/ ExecFetch \/ ExecRollback \/ ExecReturn
    \/ ExecExitTransaction \/ ExecClose \/ ExecHandler

LiveSpec == Init /\ [][LiveNext]_vars /\ WF_vars(RunStep)


\* ================================================================== claims
IsPrefix(a, b) == Len(a) <= Len(b) /\ SubSeq(b, 1, Len(a)) = a

AllFailed(h) == \A i \in 1..Len(h) : ~h[i].success

\* C1: with max_attempts = N >= 1 a run executes at most N candidates, its
\* history has at most N records, and no generation or correction call is
\* issued once the Nth execution has been made.
C1_BoundedAttempts ==
    max_attempts >= 1 =>
        /\ execCalls <= max_attempts
        /\ attempt <= max_attempts
        /\ Len(correction_history) <= max_attempts
        /\ (ret.set => Len(ret.history) <= max_attempts)
        /\ (pc \in {"generating", "correcting"} => execCalls < max_attempts)
        /\ (pc = "generating" => execCalls = 0)
        /\ \A i \in 1..Len(corrLog) : corrLog[i].after_executions < max_attempts

C1_Witness ==
    /\ pc = "returned"
    /\ max_attempts = 3
    /\ execCalls = 3
    /\ Len(ret.history) = 3
    /\ Len(corrLog) = 2

\* C2: when the execution of attempt k succeeds the run returns
\* (candidate_k, true, history) at once; the history has exactly k records
\* and no execution or correction call follows in that run.
C2_SuccessShortCircuit ==
    /\ [][(pc = "deciding" /\ result.success) =>
            /\ pc' = "returned"
            /\ ret' = [sql |-> current_sql, success |-> TRUE,
                       history |-> correction_history, set |-> TRUE]
            /\ Len(correction_history) = attempt
            /\ correction_history[attempt].sql_query = current_sql
            /\ execCalls' = execCalls
            /\ corrLog' = corrLog]_vars
    /\ [][(pc = "returned" /\ run' = run) =>
            (execCalls' = execCalls /\ corrLog' = corrLog /\ ret' = ret)]_vars
    /\ [](\A k \in 1..Len(correction_history) :
            correction_history[k].success =>
                /\ Len(correction_history) = k
                /\ execCalls = k
                /\ Len(corrLog) = k - 1
                /\ pc \in {"deciding", "returned"})

C2_Witness ==
    /\ pc = "returned"
    /\ ret.success
    /\ max_attempts = 3
    /\ Len(ret.history) = 2
    /\ execCalls = 2

\* C3: within one run the history is append-only and its i-th record
\* (counting from 1) has attempt_number i: 1-indexed, contiguous, strictly
\* increasing.
C3_MonotonicAttemptNumbering ==
    /\ [](\A i \in 1..Len(correction_history) :
            correction_history[i].attempt_number = i)
    /\ [](ret.set => \A i \in 1..Len(ret.history) :
            ret.history[i].attempt_number = i)
    /\ [][run' = run => IsPrefix(correction_history, correction_history')]_vars

C3_Witness ==
    /\ Len(correction_history) = 3
    /\ correction_history[3].attempt_number = 3
    /\ pc = "returned"

\* C4: when all N = max_attempts executions fail the run returns (the
\* candidate executed in attempt N, false, history) with exactly N records,
\* all failed, after exactly one generation call and N-1 correction calls.
C4_Exhausted ==
    (pc = "returned" /\ max_attempts >= 1 /\ ~ret.success) =>
        /\ ret.set
        /\ ret.history = correction_history
        /\ Len(ret.history) = max_attempts
        /\ AllFailed(ret.history)
        /\ ret.sql = ret.history[max_attempts].sql_query
        /\ execCalls = max_attempts
        /\ Len(genLog) = 1
        /\ Len(corrLog) = max_attempts - 1

C4_Witness ==
    /\ pc = "returned"
    /\ ~ret.success
    /\ max_attempts = 3
    /\ Len(ret.history) = 3
    /\ Len(corrLog) = 2
    /\ ret.history[2].sql_query # ret.history[3].sql_query


\* C5: provided every generation, correction and execution call returns,
\* every run that has started reaches a terminal state and returns; it stops
\* on the first succeeded outcome or when attempt_number equals max_attempts,
\* whichever comes first.
C5_Terminates ==
    /\ (pc = "generating") ~> (pc = "returned")
    /\ [](pc = "returned" /\ max_attempts >= 1 =>
            /\ ret.set
            /\ Len(ret.history) >= 1
            /\ AllFailed(SubSeq(ret.history, 1, Len(ret.history) - 1))
            /\ \/ /\ ret.success
                  /\ ret.history[Len(ret.history)].success
               \/ /\ ~ret.success
                  /\ ~ret.history[Len(ret.history)].success
                  /\ ret.history[Len(ret.history)].attempt_number = max_attempts)

C5_Witness ==
    /\ pc = "returned"
    /\ max_attempts = 3
    /\ ret.success
    /\ Len(ret.history) = 3

FailedBeforeLast(h) ==
    {k \in 1..Len(h) : k < max_attempts /\ ~h[k].success}

\* C6: every failed attempt k < max_attempts is followed by exactly one
\* correction call, issued after the execution of attempt k has completed,
\* with the query and the error message of attempt k; the text it returns is
\* the candidate executed as attempt k+1.  The first candidate is the result
\* of the initial generation call, which is made exactly once per run.
C6_CorrectionFeedsNextAttempt ==
    /\ \A i \in 1..Len(corrLog) :
          /\ i < max_attempts
          /\ corrLog[i].after_executions = i
          /\ Len(correction_history) >= i
          /\ ~correction_history[i].success
          /\ corrLog[i].failed_query = correction_history[i].sql_query
          /\ corrLog[i].error_message = correction_history[i].error_message
          /\ corrLog[i].attempt_number = i + 1
          /\ (Len(correction_history) > i =>
                /\ corrLog[i].returned
                /\ correction_history[i + 1].sql_query = corrLog[i].result)
          /\ (pc = "executing" /\ attempt = i + 1 =>
                current_sql = corrLog[i].result)
    /\ (pc \notin {"deciding", "correcting"} =>
          Len(corrLog) = Cardinality(FailedBeforeLast(correction_history)))
    /\ (pc = "correcting" => Len(corrLog) = Len(correction_history) - 1)
    /\ Len(genLog) <= 1
    /\ (pc \notin {"idle", "generating"} => Len(genLog) = 1)
    /\ (Len(correction_history) >= 1 =>
          /\ genLog[1].returned
          /\ correction_history[1].sql_query = genLog[1].result)

C6_Witness ==
    /\ Len(correction_history) = 3
    /\ Len(corrLog) = 2
    /\ correction_history[2].sql_query # correction_history[1].sql_query
    /\ correction_history[3].sql_query # correction_history[2].sql_query

\* C7: whatever the query and the outcome, the database holds after
\* execute_sql returns what it held before the call: no transaction is left
\* committed or open, so even a well-formed INSERT persists nothing.  The
\* same holds for validate_sql_syntax.
C7_RollbackInvariant ==
    /\ (pc = "executing" /\ xpc = "done" =>
          /\ db = dbBefore
          /\ txn \in {"none", "rolled_back"}
          /\ ~connOpen)
    /\ (vpc = "done" =>
          /\ db = dbBefore
          /\ txn \in {"none", "rolled_back"}
          /\ ~connOpen)
    /\ (raisedIn = "execute_sql" => txn # "committed")

C7_Witness ==
    /\ pc = "executing"
    /\ xpc = "done"
    /\ result.success
    /\ Upper(current_sql)[1] = "INSERT"
    /\ sent = 1
    /\ txn = "rolled_back"
    /\ db = dbBefore

\* C8: execute_sql never raises: every failure raised while connecting,
\* executing, fetching or rolling back comes back as a result with
\* succeeded = false and a non-null error_message that carries the reported
\* text.
C8_ExecuteNeverRaises ==
    /\ raisedIn # "execute_sql"
    /\ (pc = "executing" /\ xpc = "handler" => exc # NoExc)
    /\ (pc = "executing" /\ xpc = "done" /\ caught # NoExc =>
          /\ ~result.success
          /\ result.error_message # None
          /\ result.error_message =
                (IF caught.hasOrig THEN caught.orig ELSE caught.str)
          /\ result.sql_query = current_sql)
    /\ (pc = "executing" /\ xpc = "done" /\ ~result.success =>
          result.error_message # None)

C8_Witness ==
    /\ pc = "executing"
    /\ xpc = "done"
    /\ caught = DriverCrash
    /\ sent = 1
    /\ ~result.success

C10_ConfigurationErrorNotRetried ==
    (pc = "returned" /\ max_attempts >= 1 /\ ~DatabaseConfigured) =>
        /\ ~ret.success
        /\ Len(ret.history) = 1
        /\ Len(corrLog) = 0
        /\ ret.history[1].error_message = NO_DB_MESSAGE

\* C11: a failure inside a step of an attempt (the executor, the correction
\* call) never leaves generate_with_correction as an exception: the step's
\* attempt is in the history as a failed record and the run goes on or
\* returns.
C11_AttemptFailureNeverPropagates ==
    (pc = "raised") => raisedIn \notin {"execute_sql", "correct_sql"}

\* C12: no candidate that is_safe_query rejects is sent to the database
\* by execute_sql during a run.
C12_NoUnsafeCandidateExecuted ==
    (pc = "executing" /\ sent >= 1) => is_safe_query(current_sql).is_safe

\* C13: a run is only made with max_attempts >= 1, so a returned run has
\* at least one attempt in its history.
C13_AtLeastOneAttempt ==
    (pc = "returned") => (max_attempts >= 1 /\ Len(ret.history) >= 1)

\* C14: when a generation call times out, the attempt is recorded as failed
\* with the timeout message and the run goes on; the timeout does not end
\* the run.
C14_TimeoutRecordedAsFailedAttempt ==
    (exc = LLMTimeout /\ raisedIn = "correct_sql") =>
        /\ pc # "raised"
        /\ Len(correction_history) >= 1
        /\ correction_history[Len(correction_history)].error_message
               = LLMTimeout.str

Range(f) == {f[i] : i \in DOMAIN f}
AllIdle == \A t \in Writers : ~InProgress(t)

\* C15: when an index_schema call has returned (rebuild calls made one after
\* the other), the collection holds exactly one entry per table of the
\* schema of that call: nothing of an earlier schema, nothing twice.
C15_IndexFullyReplaced ==
    (AllIdle /\ ~overlapped /\ activeTables # <<>>) =>
        /\ vectorstore = coll_id
        /\ Len(coll_docs) = Len(activeTables)
        /\ Range(TableNames(coll_docs)) = Range(activeTables)

\* C16: a retrieve_relevant_schema or get_all_table_names call that ran
\* while an index_schema call was in progress (the only rebuild call at that
\* time) returns entries of a single index generation.
C16_NoMixedGenerations ==
    (reader.pc = "returned" /\ reader.indexing /\ ~overlapped) =>
        \A i, j \in 1..Len(reader.results) :
            reader.results[i].doc.gen = reader.results[j].doc.gen

\* C17: at most one index_schema / clear_index call on the shared SchemaRAG
\* is in progress at any time.
C17_RebuildsSerialized ==
    Cardinality({t \in Writers : InProgress(t)}) <= 1

\* C18: a query made while no index is active (never indexed, or cleared
\* since the last index_schema that returned) returns the empty result and
\* does not raise; a query made while an index is active returns a non-empty
\* result (default threshold, top_k >= 1).  Rebuild calls are made one after
\* the other and none runs during the query.
C18_EmptyWithoutIndex ==
    (reader.pc \in {"returned", "raised"} /\ reader.quiet /\ ~overlapped) =>
        /\ reader.pc = "returned"
        /\ reader.tablesAtCall = <<>> => reader.ret = <<>>
        /\ ( /\ reader.tablesAtCall # <<>>
             /\ \/ reader.op = "get_all_table_names"
                \/ reader.top_k >= 1 /\ reader.score_threshold = 0 )
           => reader.ret # <<>>

\* an index was built and cleared, and the query made then came back empty
C18_Witness ==
    /\ reader.pc = "returned"
    /\ reader.op = "retrieve_relevant_schema"
    /\ reader.quiet /\ ~overlapped
    /\ reader.tablesAtCall = <<>>
    /\ coll_made >= 1 /\ coll_id = 0
    /\ reader.ret = <<>>

\* C19: retrieve_relevant_schema(question, top_k = K) returns at most K
\* table definitions, all of tables of the active index, nearest first.
C19_TopKOfActiveIndex ==
    ( /\ reader.pc = "returned"
      /\ reader.op = "retrieve_relevant_schema"
      /\ reader.quiet /\ ~overlapped ) =>
        /\ Len(reader.results) <= reader.top_k
        /\ CountCreateTable(reader.ret) <= reader.top_k
        /\ \A i \in 1..Len(reader.results) :
               reader.results[i].doc.table_name \in Range(reader.tablesAtCall)
        /\ \A i, j \in 1..Len(reader.results) :
               i < j => reader.results[i].score <= reader.results[j].score

\* the full schema text of the request: its own, or the sample schema
FullSchema ==
    IF request.db_schema # <<>> THEN request.db_schema ELSE SAMPLE_SCHEMA

FellBack ==
    \/ request.retrieval = "empty"
    \/ /\ ~request.rag_enabled
       /\ request.pc \notin {"none", "rag_check"}
       /\ request.status # 400

\* C20: when the index is not built or retrieval returns the empty result,
\* the request goes on to analysis with the full schema text of the request
\* (or the sample schema), and that text is what analysis and the correction
\* loop are given; the request does not fail before analysis.
C20_FallbackToFullSchema ==
    FellBack =>
        /\ request.focused_schema = FullSchema
        /\ request.tables_retrieved = 0
        /\ request.pc \in {"analyze", "loop", "in_loop", "failed"}
        /\ request.pc \in {"loop", "in_loop", "failed"} =>
               request.analyzed = FullSchema
        /\ request.pc = "in_loop" => request.handed = FullSchema

\* the index was cleared between the rag_enabled check and the retrieval:
\* the request entered the loop with the sample schema
C20_Witness ==
    /\ request.pc = "in_loop"
    /\ request.rag_enabled
    /\ request.retrieval = "empty"
    /\ request.handed = SAMPLE_SCHEMA
    /\ pc = "generating"

\* ------------------------------------------------- results of execute_sql
\* execute_sql has delivered a result that the loop has not yet recorded
ExecuteSqlReturned == pc = "executing" /\ xpc = "done"

\* C27: every result execute_sql returns has execution_time_ms set, whatever
\* the outcome: success, SQL error, unexpected exception, and no database
\* configured
C27_LatencyAlwaysRecorded ==
    ExecuteSqlReturned => result.execution_time_ms # None

\* the first token that is not whitespace is the keyword SELECT in any case
ReadQuery(sql_query) ==
    \E i \in 1..Len(sql_query) :
        /\ \A j \in 1..(i - 1) : sql_query[j] \in Whitespace
        /\ sql_query[i] \in {"SELECT", "select"}

\* C28: row_count of a result of execute_sql is set if and only if the
\* execution succeeded and the query is a read query (leading keyword SELECT
\* in any case, leading whitespace ignored); when set it is the number of
\* rows the query returned
C28_RowCountOnlyForSuccessfulReads ==
    ExecuteSqlReturned =>
        /\ (result.row_count # {}) <=>
               (result.success /\ ReadQuery(result.sql_query))
        /\ result.row_count # {} =>
               result.row_count =
                   {DbExecute(result.sql_query, dbBefore, FALSE).returned}
        /\ \A i \in 1..Len(execLog) :
               (execLog[i].row_count # {}) <=>
                   (execLog[i].success /\ ReadQuery(execLog[i].sql_query))

\* a lower-case read query has succeeded and its row count is set, and a
\* successful non-read statement and a failed read were recorded before
C28_Witness ==
    /\ ExecuteSqlReturned
    /\ result.success
    /\ result.sql_query[1] = "select"
    /\ result.row_count = {1}
    /\ \E i \in 1..Len(execLog) :
          ~execLog[i].success /\ ReadQuery(execLog[i].sql_query)

\* ------------------------------------------------ the loop as a function
\* what the text-generation capability answered in this run, in call order:
\* the initial generation, then the corrections
ScriptedOutputs ==
    [i \in 1..(Len(genLog) + Len(corrLog)) |->
        IF i <= Len(genLog) THEN genLog[i].result
        ELSE corrLog[i - Len(genLog)].result]

\* what the executions of this run answered, in call order
ExecutionOutcomes ==
    [i \in 1..Len(execLog) |->
        [success |-> execLog[i].success,
         error_message |-> execLog[i].error_message]]

\* the value generate_with_correction returns, computed from max_attempts,
\* the scripted outputs and the execution outcomes alone: attempt k runs
\* output k, a success returns at once, a failure takes the next output
\* while attempts are left
RECURSIVE ReplayFrom(_, _, _, _, _)
ReplayFrom(n, k, outputs, outcomes, history) ==
    IF k > n
    THEN [sql |-> outputs[1], success |-> FALSE, history |-> history]
    ELSE LET h == Append(history,
                         CorrectionAttempt(k, outputs[k],
                                           outcomes[k].error_message,
                                           outcomes[k].success))
         IN  IF outcomes[k].success
             THEN [sql |-> outputs[k], success |-> TRUE, history |-> h]
             ELSE IF k < n
             THEN ReplayFrom(n, k + 1, outputs, outcomes, h)
             ELSE [sql |-> outputs[k], success |-> FALSE, history |-> h]

Replay(n, outputs, outcomes) == ReplayFrom(n, 1, outputs, outcomes, <<>>)

\* C26: the loop's control logic is deterministic: the final SQL, the
\* success flag and the history (attempt_number, query text, error_message
\* and succeeded at every index) that generate_with_correction returns are
\* a function of max_attempts, the scripted generation/correction outputs
\* and the execution outcomes, so two runs that agree on these return the
\* same
C26_LoopIsDeterministic ==
    pc = "returned" =>
        LET r == Replay(max_attempts, ScriptedOutputs, ExecutionOutcomes)
        IN  /\ ret.sql = r.sql
            /\ ret.success = r.success
            /\ ret.history = r.history

\* a second run has returned a success after a failed attempt
C26_Witness ==
    /\ pc = "returned"
    /\ run = 2
    /\ ret.success
    /\ Len(ret.history) >= 2

\* --------------------------------------------- the stages of a v2 request
\* the stage events of a request that runs to its response, in the order
\* generate_sql calls the stages; retrieval is there when the index is loaded
StageOrder(rag_enabled) ==
    (IF rag_enabled THEN <<"retrieval", "retrieval returned">> ELSE <<>>)
    \o <<"analysis", "analysis returned", "loop", "loop returned",
         "explanation", "explanation returned">>

\* a stage that raised ended where it would have returned
Returned(event) ==
    CASE event = "retrieval raised"   -> "retrieval returned"
      [] event = "analysis raised"    -> "analysis returned"
      [] event = "loop raised"        -> "loop returned"
      [] event = "explanation raised" -> "explanation returned"
      [] OTHER -> event

StagesSoFar == [i \in 1..Len(request.stages) |-> Returned(request.stages[i])]

LoopRunning == pc \notin {"idle", "returned", "raised"}

\* C21: within one v2 request the stages run strictly in the order
\* retrieval, analysis, correction loop, explanation; each stage starts only
\* after the stage before it has returned; the loop receives the plan that
\* analysis produced; the explanation is generated for exactly the final
\* SQL the loop returned, also when the loop failed
C21_StagesInOrder ==
    /\ IsPrefix(StagesSoFar, StageOrder(request.rag_enabled))
    /\ reader.pc # "idle" =>
          /\ request.stages = <<"retrieval">>
             \/ request.stages = <<"retrieval", "retrieval returned">>
          /\ ~LoopRunning
    /\ LoopRunning =>
          /\ request.pc = "in_loop"
          /\ request.stages[Len(request.stages)] = "loop"
    /\ "loop" \in Range(request.stages) =>
          /\ request.handed_plan = request.plan
          /\ request.plan = StructuredPlan(request.analyzed, request.question)
          /\ request.plan # NoPlan
    /\ "explanation" \in Range(request.stages) =>
          /\ pc = "returned"
          /\ request.explained = ret.sql
    /\ request.pc = "responded" =>
          /\ request.response.explanation = ExplanationOf(ret.sql)
          /\ request.response.sql_query = ret.sql

\* a request that went through retrieval has its response, after a loop that
\* failed on a query other than its first candidate
C21_Witness ==
    /\ request.pc = "responded"
    /\ request.rag_enabled
    /\ ~ret.success
    /\ ret.sql # ret.history[1].sql_query
    /\ Len(request.stages) = 8

\* the run of the loop used up its attempts and none succeeded
LoopExhausted ==
    /\ pc = "returned"
    /\ ~ret.success
    /\ Len(ret.history) = max_attempts

C23_OnlyInitialGenerationFailureIsHard ==
    (request.pc = "failed" /\ "loop" \in Range(request.stages)) =>
        /\ Len(genLog) = 1
        /\ ~genLog[1].returned
        /\ execLog = <<>>
        /\ execCalls = 0

\* the schema the loop was handed is the text retrieval returned
FromRetrieval ==
    /\ request.retrieval = "found"
    /\ request.handed = request.relevant_schema

\* C24 as stated: the retrieval-used flag of a response is true exactly when
\* the schema handed to generation came from retrieval and not from the
\* full-schema fallback, and tables_retrieved is the number of table
\* definitions in that focused schema
C24_FlagMeansSchemaFromRetrieval ==
    request.pc = "responded" =>
        /\ request.response.rag_enabled <=> FromRetrieval
        /\ request.response.rag_enabled =>
              request.response.tables_retrieved =
                  {Len(parse_schema_to_chunks(request.handed))}

\* C24: every response records whether retrieval was used and how many
\* tables it returned: rag_enabled is true exactly when the index was loaded
\* and retrieval was called; tables_retrieved is then the number of table
\* definitions retrieval returned, which is the number in the schema handed
\* to generation, or 0 when retrieval returned nothing and the full schema
\* was handed over; without retrieval tables_retrieved is not set
C24_RetrievalRecorded ==
    request.pc = "responded" =>
        LET r == request.response IN
        /\ r.rag_enabled <=> "retrieval" \in Range(request.stages)
        /\ (r.rag_enabled /\ r.tables_retrieved # {0}) <=> FromRetrieval
        /\ FromRetrieval =>
              r.tables_retrieved = {Len(parse_schema_to_chunks(request.handed))}
        /\ ~FromRetrieval => request.handed = FullSchema
        /\ ~r.rag_enabled => r.tables_retrieved = {}

\* responses of both kinds exist: here retrieval was called and returned
\* nothing, so the full schema was handed to generation
C24_Witness ==
    /\ request.pc = "responded"
    /\ request.response.rag_enabled
    /\ request.response.tables_retrieved = {0}
    /\ request.handed = FullSchema

\* ------------------------------------------------------ concurrent runs
\* the attempts of the run in frame f: its executions, numbered from 1
AttemptsOf(f) ==
    [i \in 1..Len(f.execLog) |->
        CorrectionAttempt(i, f.execLog[i].sql_query,
                          f.execLog[i].error_message, f.execLog[i].success)]

\* the history of the agent in frame f holds the attempts of its own run so
\* far, and a history it has returned holds all of them
OwnsItsHistory(f) ==
    /\ f.pc \notin {"idle", "generating"} =>
          /\ f.correction_history = AttemptsOf(f)
          /\ \A i \in 1..Len(f.correction_history) :
                f.correction_history[i].sql_query \in
                    {f.genLog[1].result} \cup
                    {f.corrLog[j].result : j \in 1..Len(f.corrLog)}
    /\ f.pc = "returned" => f.ret.history = AttemptsOf(f)

\* C25: for any interleaving of two concurrent requests each run of the
\* correction loop owns its own history: the history returned to a request
\* holds exactly the attempts of that request's run, in order, and is never
\* modified by the other request's run
C25_EachRunOwnsItsHistory ==
    /\ OwnsItsHistory(Frame)
    /\ threads.parked => OwnsItsHistory(threads.frame)

\* both runs have returned, with histories that differ, and the run that
\* returned first was not the last to start
C25_Witness ==
    /\ threads.parked
    /\ pc = "returned"
    /\ threads.frame.pc = "returned"
    /\ Len(ret.history) = 3
    /\ Len(threads.frame.ret.history) = 3
    /\ ret.history # threads.frame.ret.history

\* ------------------------------------------------------ chunker round trip
\* C29: for a schema text with CREATE TABLE statements for tables T1..Tn,
\* parse_schema_to_chunks returns exactly n chunks with the names T1..Tn in
\* statement order, and parsing the full_definition of each chunk again
\* yields one chunk with the same table name and the same column names
C29_ChunkerRoundTrip ==
    fn_ret.fn = "parse_schema_to_chunks" =>
        /\ Len(fn_ret.value) = Len(fn_ret.expect)
        /\ \A i \in 1..Len(fn_ret.value) :
              /\ fn_ret.value[i].table_name = fn_ret.expect[i].table_name
              /\ fn_ret.value[i].columns = fn_ret.expect[i].columns
        /\ fn_ret.round = 2 => Len(fn_ret.value) = 1

\* the second of two chunks, with two columns, was parsed again
C29_Witness ==
    /\ fn_ret.fn = "parse_schema_to_chunks"
    /\ fn_ret.round = 2
    /\ fn_ret.chunk = 2
    /\ fn_ret.of = 2
    /\ Len(fn_ret.value) = 1
    /\ Len(fn_ret.value[1].columns) = 2

\* ------------------------------------------------------- the v1 pipeline
\* every capability the request called has answered
V1CapabilitiesSucceeded == v1.exc \notin LLMFaults

\* C30: in the v1 pipeline explanation and validation both work on the SQL
\* text the generator produced and start only after generation has
\* completed; the response is built only after both have returned an
\* explanation string and an (is_valid, message) verdict; a request whose
\* capabilities all succeed ends in a response, not in an error
C30_V1ExplainsAndValidatesGeneratedSql ==
    /\ (v1.task["run_explainer"] # "none" \/ v1.task["run_validator"] # "none") =>
          /\ v1.task["run_generator"] = "returned"
          /\ "generator_chain" \in v1.invoked
          /\ v1.sql_query.kind = "text"
    /\ v1.pc = "responded" =>
          /\ v1.task["run_explainer"] = "returned"
          /\ v1.task["run_validator"] = "returned"
          /\ v1.returned["run_explainer"].kind = "text"
          /\ v1.returned["run_validator"].kind = "pair"
    /\ (v1.pc = "failed" /\ v1.status = 500) => ~V1CapabilitiesSucceeded

\* ------------------------------------------- summary of previous attempts
\* C31: the summary of previous attempts passed to each correction call has
\* at most 3 entries, all taken from the history of the current run: the
\* most recent recorded attempts in ascending attempt order; it never holds
\* an attempt of an earlier run on the same agent
C31_SummaryIsLastThreeOfThisRun ==
    \A i \in 1..Len(corrLog) :
        LET summary == corrLog[i].previous_attempts
            n       == Len(summary)
        IN  /\ n <= 3
            /\ n = IF i > 3 THEN 3 ELSE i
            /\ \A j \in 1..n :
                  /\ summary[j].attempt_number = i - n + j
                  /\ i - n + j <= Len(correction_history)
                  /\ correction_history[i - n + j].attempt_number = i - n + j
                  /\ summary[j].text =
                        IF correction_history[i - n + j].error_message
                              \in {None, ""}
                        THEN "Success"
                        ELSE correction_history[i - n + j].error_message

\* in a second run the fourth correction call was made: its summary holds
\* the attempts 2, 3 and 4 of that run
C31_Witness ==
    /\ run = 2
    /\ Len(corrLog) = 4
    /\ Len(corrLog[4].previous_attempts) = 3
    /\ corrLog[4].previous_attempts[1].attempt_number = 2

\* ------------------------------------------------------- score threshold
\* C32: the score_threshold filter keeps the most similar entries: every
\* returned entry has score >= score_threshold, the threshold 0 drops none
\* of the top_k neighbours, and whenever an entry is returned every
\* retrieved entry that is more similar to the question (nearer to it) is
\* returned as well
C32_ThresholdKeepsMostSimilar ==
    [][(reader.pc = "build" /\ reader'.pc = "returned") =>
        LET retrieved == reader.results
            returned  == reader'.results
        IN  /\ \A i \in 1..Len(returned) :
                  returned[i].score >= reader.score_threshold
            /\ reader.score_threshold = 0 => returned = retrieved
            /\ \A i \in 1..Len(returned), j \in 1..Len(retrieved) :
                  Distance(reader.question, retrieved[j].doc.table_name)
                      < Distance(reader.question, returned[i].doc.table_name)
                  => \E k \in 1..Len(returned) : returned[k] = retrieved[j]
      ]_vars

\* ------------------------------------------------------ validate_sql_query
\* C33: validate_sql_query checks in the order empty, safety, database: an
\* empty or whitespace-only query returns (False, "Empty query provided"); a
\* query that fails is_safe_query returns (False, safety message) and is
\* never sent to the database; only a non-empty query that passed the safety
\* check is executed, and with no database configured such a query returns
\* (True, ...) without any execution
C33_EmptyThenSafetyThenDatabase ==
    fn_call.fn = "validate_sql_query" =>
        LET sql_query == RStripSemicolons(Strip(fn_call.arg))
            empty     == Strip(fn_call.arg) = <<>>
            safety    == is_safe_query(sql_query)
        IN  /\ (sent > 0 \/ connects > 0) =>
                  /\ ~empty
                  /\ safety.is_safe
                  /\ DatabaseConfigured
                  /\ vquery = sql_query
            /\ fn_call.pc = "returned" =>
                  /\ empty =>
                        /\ ~fn_ret.valid
                        /\ fn_ret.message = "Empty query provided"
                  /\ (~empty /\ ~safety.is_safe) =>
                        /\ ~fn_ret.valid
                        /\ fn_ret.message = safety.message
                  /\ (~empty /\ safety.is_safe /\ ~DatabaseConfigured) =>
                        /\ fn_ret.valid
                        /\ sent = 0
                        /\ connects = 0

\* with a database configured and its engine made, a query that fails the
\* safety check has returned its safety message and nothing was sent
C33_Witness ==
    /\ fn_call.fn = "validate_sql_query"
    /\ fn_call.pc = "returned"
    /\ DatabaseConfigured
    /\ validation_engine = "Engine"
    /\ ~fn_ret.valid
    /\ fn_ret.message = is_safe_query(Strip(fn_call.arg)).message
    /\ ~is_safe_query(Strip(fn_call.arg)).is_safe
    /\ sent = 0

\* C34: is_safe_query rejects every mutating statement: for each statement
\* kind of the dangerous list (DROP TABLE, DELETE FROM, TRUNCATE TABLE,
\* INSERT INTO, UPDATE of a table, ALTER TABLE, CREATE TABLE, GRANT, REVOKE),
\* in any letter case, a query of that kind yields (False, message)
C34_EveryMutatingStatementRejected ==
    fn_call.fn = "is_safe_query" =>
        /\ ~fn_ret.valid
        /\ \E n \in 1..Len(DANGEROUS_PATTERNS) :
              fn_ret.message =
                  "Query contains potentially dangerous operation: "
                      \o DANGEROUS_PATTERNS[n].re

\* ------------------------------------------------- schema without tables
\* C35: index_schema called with a schema text from which no table chunk is
\* parsed raises nothing and leaves the index state (vectorstore and
\* schema_loaded) unchanged: an index built before stays active and
\* queryable, and an index never built stays unbuilt
C35_NoTableSchemaLeavesIndexAlone ==
    [][\A t \in Writers :
          (/\ ~InProgress(t)
           /\ rebuilds' = rebuilds + 1
           /\ writer'[t].pc = "idle"
           /\ writer'[t].call = rebuilds') =>
              /\ writer'[t].raised = None
              /\ vectorstore' = vectorstore
              /\ schema_loaded' = schema_loaded
              /\ coll_id' = coll_id
              /\ coll_docs' = coll_docs
      ]_vars

\* the last rebuild call was an index_schema that found no table, made when
\* an index was built: the index is still active
C35_Witness ==
    /\ rebuilds = 2
    /\ \E t \in Writers : writer[t].pc = "idle" /\ writer[t].call = 2
    /\ AllIdle
    /\ schema_loaded
    /\ vectorstore # 0
    /\ vectorstore = coll_id
    /\ coll_docs # <<>>

\* ------------------------------------------------ result and history agree
\* C36: at every return of generate_with_correction the result agrees with
\* the history: the returned SQL is the query of the last history record,
\* the returned success flag is the success of that record, and every
\* record before the last one failed
C36_ResultMatchesHistory ==
    pc = "returned" =>
        LET h == ret.history IN
        /\ h # <<>>
        /\ ret.sql = h[Len(h)].sql_query
        /\ ret.success = h[Len(h)].success
        /\ \A i \in 1..(Len(h) - 1) : ~h[i].success

\* ------------------------------------------------ one run after the other
\* the value of history list number i: the lists the agent has let go of in
\* the order it made them, then the list it refers to now
ListValue(lists, current, i) ==
    IF i <= Len(lists) THEN lists[i] ELSE current

\* C37: running generate_with_correction twice in sequence on the same agent
\* starts the second run from an empty history: the history of the second
\* run holds only its own attempts numbered from 1, and the history object
\* the first run returned is not changed by the second run
C37_SecondRunStartsEmpty ==
    /\ [](run >= 2 =>
            /\ pc = "generating" => correction_history = <<>>
            /\ pc \notin {"generating", "raised"} =>
                  correction_history = AttemptsOf(Frame))
    /\ [][(pc = "returned" /\ run' = run + 1) =>
            /\ correction_history' = <<>>
            /\ ListValue(retired', correction_history', Len(retired) + 1)
                  = ret.history]_vars
    /\ [][\A i \in 1..Len(retired) :
            /\ i <= Len(retired')
            /\ retired'[i] = retired[i]]_vars

\* the second run has returned its own two attempts, and the list the first
\* run returned still holds the two attempts of the first run
C37_Witness ==
    /\ run = 2
    /\ pc = "returned"
    /\ Len(ret.history) = 2
    /\ Len(retired) = 2
    /\ Len(retired[2]) = 2
    /\ retired[2] # ret.history

\* ------------------------------------------------- schema of the request
\* the table definitions (name and columns) a schema text declares
TableDefinitions(text) ==
    {[table_name |-> c.table_name, columns |-> c.columns] :
        c \in Range(parse_schema_to_chunks(text))}

\* the text is the full schema of the request or table definitions of it
DerivedFromOwnSchema(text) ==
    \/ text = FullSchema
    \/ /\ TableDefinitions(text) # {}
       /\ TableDefinitions(text) \subseteq TableDefinitions(FullSchema)

\* C38: the schema handed to analysis and generation in a v2 request is
\* always derived from the schema of that request (the db_schema it supplied,
\* or the default schema when it supplied none): the full schema text or a
\* subset of its table definitions, never table definitions of a different
\* schema indexed earlier in the shared index
C38_SchemaIsTheRequestsOwn ==
    /\ request.analyzed # <<>> => DerivedFromOwnSchema(request.analyzed)
    /\ request.handed # <<>> => DerivedFromOwnSchema(request.handed)

\* ------------------------------------------- queries beside a clear_index
\* C39: a retrieve_relevant_schema or get_all_table_names call interleaved
\* at any point with a concurrent clear_index (or index_schema) on the same
\* SchemaRAG returns results of an index generation or the empty result; it
\* never fails with an exception because the index was released between its
\* "is indexed" check and its use of the vector store, and schema_loaded is
\* true only while a vector store is present
C39_QueryNeverSeesReleasedIndex ==
    /\ reader.pc # "raised"
    /\ reader.raised = None
    /\ reader.pc = "returned" =>
          \/ reader.results = <<>>
          \/ \A i \in 1..Len(reader.results) :
                reader.results[i].doc.gen \in 1..rebuilds
    /\ schema_loaded => vectorstore # 0

====
